---------------------------- MODULE Spec2Model ----------------------------
(***************************************************************************)
(* Trigger detection system: the trigger store (database/trigger_db.py),   *)
(* the monitors' fetch -> parse -> analyze cycle (monitors/*.py) and the    *)
(* trigger scorer (utils/helpers.py).                                       *)
(*                                                                          *)
(* Conventions.  Scores are held in tenths (70 is 7.0), sentiment and       *)
(* reliability in thousandths (333 is 0.333), so that Python's round(x, 1)  *)
(* and round(x, 3) are integer roundings.  Python's None is the string      *)
(* "None" for text fields (what an f-string makes of it) and the empty      *)
(* tuple <<>> for optional numbers, a present number v being <<v>>.  The    *)
(* MD5 digest is taken to be injective: a fingerprint is the text digested. *)
(***************************************************************************)
EXTENDS Integers, Sequences, FiniteSets, TLC

VARIABLES
    triggers,   \* the rows of table triggers, in id order: row i has id i
    ret,        \* the last store call: its name, arguments and outcome
    conn,       \* per worker, the insert_trigger call it makes on its own connection
    lock,       \* the connection holding the database's write lock, if any
    seen_hashes,\* NewsMonitor.seen_hashes: the hashes of the items parsed so far
    results,    \* BaseMonitor.results: what the last run() left
    last_run,   \* BaseMonitor.last_run: the runs made, None before the first
    run,        \* the last run(): what fetch handed over and what run() returned
    scored,     \* the last call of a function that keeps no state, and what it gave
    scheduler,  \* TriggerScheduler: is_running, jobs and the jobs' stop events
    loops,      \* per job, the thread start() gave it: where it is in its loop
    manual,     \* the threads run_now started, and the job each runs
    monitors    \* per job, the monitor its function runs: the monitor's seen_hashes

storeVars == <<triggers, ret>>

concVars == <<conn, lock>>

monVars == <<seen_hashes, results, last_run, run>>

scoreVars == <<scored>>

schedVars == <<scheduler, loops, manual, monitors>>

None == "None"

NoneT == <<>>

Some(v) == <<v>>

----------------------------------------------------------------------------
(* Bounds of the model *)

\* How many flag and note updates change a store (a call that changes
\* nothing is always possible).
MaxUpdates == 2

MaxLimit == 2

\* Workers calling insert_trigger at the same time.
NumWorkers == 3

\* get_triggers' default limit. The source's value is 100; the model scales it
\* below the number of fingerprints of ValidEvents, so that a store can hold
\* more rows than one query returns.
DefaultLimit == 2

\* The LIMIT of the top_companies query. The source's value is 10; the model
\* scales it below the number of companies of ValidEvents, so that the
\* limit cuts.
TopCompaniesLimit == 1

\* The raw entries of one RSS fetch
MaxBatch == 2

\* The runs one monitor instance makes
MaxRuns == 2

\* The keyword matches handed to the scorer
MaxKeywords == 5

\* The length of the texts handed to clean_text
MaxTextLen == 5

\* The run_now calls made
MaxRunNow == 1

\* The executions the periodic loop gives one job
MaxJobRuns == 2

\* The length of the short texts handed to detect
MaxDetectLen == 4

\* The words of the texts handed to the fallback sentiment analysis
MaxWords == 3

\* The items of one batch handed to a monitor's analyze
BatchSize == 2

----------------------------------------------------------------------------
(* TriggerEvent values handed to insert_trigger *)

Event(st, t, c, u, co, sc, d, arch) ==
    [source_type |-> st, source_name |-> "src", title |-> t, content |-> c,
     url |-> u, company_name |-> co, trigger_keywords |-> "[]",
     sentiment_score |-> 0, trigger_score |-> sc, detected_at |-> d,
     published_at |-> NoneT, is_processed |-> FALSE, is_archived |-> arch,
     notes |-> ""]

\* Events as every caller of insert_trigger builds them (main.py, app.py): the
\* fields of a TriggerResult, the flags and the notes left at their defaults.
\* "a"+"b" and "ab"+"" are different events with the same fingerprint.
ValidEvents ==
    { Event("news",   "a",  "b", "", "sun", 70, Some(1), FALSE),
      Event("news",   "a",  "b", "", "sun", 65, Some(2), FALSE),
      Event("tender", "ab", "",  "", None,  70, Some(2), FALSE),
      Event("tender", "a",  "",  "", "sun", 65, NoneT,   FALSE),
      Event("news",   "b",  "",  "", "cipla", 70, Some(2), FALSE) }

\* Events that lack a NOT NULL column of the schema.
MalformedEvents ==
    { Event(None,   "c",  "", "", None, 70, Some(1), FALSE),
      Event("news", None, "", "", None, 70, Some(1), FALSE) }

Events == ValidEvents \cup MalformedEvents

Times == {1, 2}

Notes == {"x"}

----------------------------------------------------------------------------
(* TriggerDatabase *)

HashContent(content) == content

Fingerprint(e) == HashContent(e.title \o e.content \o e.url)

Rows(t) == { t[i] : i \in 1..Len(t) }

\* The schema's NOT NULL columns, of those insert_trigger binds.
NotNullViolation(e) == e.source_type = None \/ e.title = None

\* Mutant: the content_hash column without its UNIQUE constraint.
NoUniqueConstraint(t, e) == FALSE

\* Mutant: the uniqueness constraint put on the title column.
UniqueViolationOnTitle(t, e) == \E r \in Rows(t) : r.title = e.title

\* content_hash TEXT UNIQUE
UniqueViolation(t, e) == \E r \in Rows(t) : r.content_hash = Fingerprint(e)

IntegrityError(t, e) == NotNullViolation(e) \/ UniqueViolation(t, e)

NewRow(t, e, now) ==
    [id |-> Len(t) + 1,
     source_type |-> e.source_type, source_name |-> e.source_name,
     title |-> e.title, content |-> e.content, url |-> e.url,
     company_name |-> e.company_name, trigger_keywords |-> e.trigger_keywords,
     sentiment_score |-> e.sentiment_score, trigger_score |-> e.trigger_score,
     detected_at |-> IF e.detected_at = NoneT THEN Some(now) ELSE e.detected_at,
     published_at |-> e.published_at,
     is_processed |-> e.is_processed, is_archived |-> e.is_archived,
     notes |-> e.notes, content_hash |-> Fingerprint(e)]

\* What insert_trigger hands back: the new id, None, or the exception that
\* leaves it. The except clause formats trigger.title[:50], which raises
\* TypeError when title is None.
InsertOutcome(t, e) ==
    IF ~IntegrityError(t, e) THEN "id"
    ELSE IF e.title = None THEN "TypeError"
    ELSE "none"

insert_trigger(e) ==
    /\ \E now \in Times :
         /\ triggers' = IF IntegrityError(triggers, e) THEN triggers
                        ELSE Append(triggers, NewRow(triggers, e, now))
         /\ ret' = [op |-> "insert_trigger", arg |-> e,
                    out |-> InsertOutcome(triggers, e),
                    val |-> IF IntegrityError(triggers, e) THEN NoneT
                            ELSE Some(Len(triggers) + 1)]

\* company_name LIKE '%pat%' (the model's names are lower case)
Like(name, pat) ==
    /\ name # None
    /\ \E i \in 1..(Len(name) - Len(pat) + 1) : SubSeq(name, i, i + Len(pat) - 1) = pat

\* Mutant: the is_archived = 0 condition left out of the WHERE clause.
SelectedWithArchived(r, source_type, company_name, min_score, include_archived) ==
    /\ (source_type # None /\ source_type # "") => r.source_type = source_type
    /\ (company_name # None /\ company_name # "") => Like(r.company_name, company_name)
    /\ (min_score # NoneT /\ min_score # Some(0)) => r.trigger_score >= min_score[1]

\* The WHERE clause get_triggers builds: a filter is added only when its
\* argument is truthy, so min_score 0 (like None) adds none.
Selected(r, source_type, company_name, min_score, include_archived) ==
    /\ (~include_archived) => ~r.is_archived
    /\ (source_type # None /\ source_type # "") => r.source_type = source_type
    /\ (company_name # None /\ company_name # "") => Like(r.company_name, company_name)
    /\ (min_score # NoneT /\ min_score # Some(0)) => r.trigger_score >= min_score[1]

\* Mutant: ORDER BY trigger_score DESC, detected_at ASC.
OrderedBeforeOldestFirst(r, s) ==
    \/ r.trigger_score > s.trigger_score
    \/ r.trigger_score = s.trigger_score /\ r.detected_at[1] <= s.detected_at[1]

\* ORDER BY trigger_score DESC, detected_at DESC: r may come before s.
OrderedBefore(r, s) ==
    \/ r.trigger_score > s.trigger_score
    \/ r.trigger_score = s.trigger_score /\ r.detected_at[1] >= s.detected_at[1]

\* Every order of the rows S the ORDER BY clause allows (rows equal in both
\* keys come in either order).
Orderings(S) ==
    { q \in [1..Cardinality(S) -> S] :
        /\ \A i, j \in 1..Cardinality(S) : i # j => q[i] # q[j]
        /\ \A i, j \in 1..Cardinality(S) : i < j => OrderedBefore(q[i], q[j]) }

Min(a, b) == IF a < b THEN a ELSE b

\* LIMIT n
Limit(q, n) == SubSeq(q, 1, Min(n, Len(q)))

\* The TriggerEvent objects get_triggers builds from the rows it fetched.
GetTriggers(t, source_type, company_name, min_score, limit, include_archived) ==
    { Limit(q, limit) :
        q \in Orderings({ r \in Rows(t) :
                Selected(r, source_type, company_name, min_score, include_archived) }) }

QueryArg(st, co, ms, n, ia) ==
    [source_type |-> st, company_name |-> co, min_score |-> ms, limit |-> n,
     include_archived |-> ia]

\* The calls made: the default call with and without the archived rows, a
\* score threshold with every limit, and the text filters.
QueryArgs ==
    { QueryArg(None, None, NoneT, DefaultLimit, ia) : ia \in BOOLEAN }
    \cup { QueryArg(None, None, Some(m), n, FALSE) : m \in {0, 70}, n \in 0..MaxLimit }
    \cup { QueryArg("news", "un", NoneT, DefaultLimit, TRUE) }

get_triggers(a) ==
    /\ \E q \in GetTriggers(triggers, a.source_type, a.company_name, a.min_score,
                            a.limit, a.include_archived) :
         ret' = [op |-> "get_triggers", arg |-> a, out |-> "rows", val |-> q]
    /\ UNCHANGED triggers

\* The filters handed to export_to_csv: none, or the archived rows as well
ExportFilters == {NoneT, Some(QueryArg(None, None, NoneT, DefaultLimit, TRUE))}

\* export_to_csv: get_triggers(**(filters or {})), that is with its default
\* arguments where no filters are given; one data row is written for each
\* TriggerEvent it returns and their number is returned.
export_to_csv(filters) ==
    LET a == IF filters = NoneT THEN QueryArg(None, None, NoneT, DefaultLimit, FALSE)
             ELSE filters[1]
    IN  /\ \E q \in GetTriggers(triggers, a.source_type, a.company_name, a.min_score,
                                a.limit, a.include_archived) :
             ret' = [op |-> "export_to_csv", arg |-> [filters |-> filters], out |-> "csv",
                     val |-> [rows |-> q, count |-> Len(q)]]
        /\ UNCHANGED triggers

\* Mutant: the statistics without WHERE is_archived = 0.
ArchivedToo(t) == Rows(t)

Active(t) == { r \in Rows(t) : ~r.is_archived }

\* get_trigger_stats: total_triggers, by_source, high_score_count and
\* top_companies (recent_triggers, which reads the clock, is not carried).
TotalTriggers(t) == Cardinality(Active(t))

BySource(t) ==
    [s \in { r.source_type : r \in Active(t) } |->
        Cardinality({ r \in Active(t) : r.source_type = s })]

HighScoreCount(t) == Cardinality({ r \in Active(t) : r.trigger_score >= 70 })

\* GROUP BY company_name over the active rows whose company_name is not
\* NULL: the <<company_name, count>> pairs
CompanyCounts(t) ==
    { <<c, Cardinality({ r \in Active(t) : r.company_name = c })>> :
        c \in { r.company_name : r \in Active(t) } \ {None} }

\* ORDER BY count DESC LIMIT 10: every order the clause allows (companies
\* of one count come in either order), cut at the limit
TopCompanies(t) ==
    LET P == CompanyCounts(t)
        n == Cardinality(P)
    IN  { Limit(q, TopCompaniesLimit) :
            q \in { p \in [1..n -> P] :
                      /\ \A i, j \in 1..n : i # j => p[i] # p[j]
                      /\ \A i, j \in 1..n : i < j => p[i][2] >= p[j][2] } }

get_trigger_stats ==
    /\ \E top \in TopCompanies(triggers) :
         ret' = [op |-> "get_trigger_stats", arg |-> [none |-> TRUE], out |-> "stats",
                 val |-> [total_triggers |-> TotalTriggers(triggers),
                          by_source |-> BySource(triggers),
                          high_score_count |-> HighScoreCount(triggers),
                          top_companies |-> top]]
    /\ UNCHANGED triggers

\* Mutant: the UPDATE without its WHERE clause.
UpdateEveryRow(t, id, column, value) ==
    [i \in 1..Len(t) |-> [t[i] EXCEPT ![column] = value]]

\* UPDATE triggers SET <column> = <value> WHERE id = ?
Update(t, id, column, value) ==
    [i \in 1..Len(t) |-> IF t[i].id = id THEN [t[i] EXCEPT ![column] = value] ELSE t[i]]

\* The ids a store of ValidEvents can hold, and one it cannot.
Ids == 1..(Cardinality({ Fingerprint(e) : e \in ValidEvents }) + 1)

\* The updates that have changed the store t.
NumUpdates(t) ==
    Cardinality({ i \in 1..Len(t) : t[i].is_processed })
    + Cardinality({ i \in 1..Len(t) : t[i].is_archived })
    + Cardinality({ i \in 1..Len(t) : t[i].notes # "" })

WithinUpdates(t, u) == u # t => NumUpdates(t) < MaxUpdates

mark_processed(id) ==
    /\ WithinUpdates(triggers, Update(triggers, id, "is_processed", TRUE))
    /\ triggers' = Update(triggers, id, "is_processed", TRUE)
    /\ ret' = [op |-> "mark_processed", arg |-> [id |-> id], out |-> "none", val |-> NoneT]

archive_trigger(id) ==
    /\ WithinUpdates(triggers, Update(triggers, id, "is_archived", TRUE))
    /\ triggers' = Update(triggers, id, "is_archived", TRUE)
    /\ ret' = [op |-> "archive_trigger", arg |-> [id |-> id], out |-> "none", val |-> NoneT]

add_note(id, note) ==
    /\ WithinUpdates(triggers, Update(triggers, id, "notes", note))
    /\ triggers' = Update(triggers, id, "notes", note)
    /\ ret' = [op |-> "add_note", arg |-> [id |-> id, note |-> note], out |-> "none",
               val |-> NoneT]

----------------------------------------------------------------------------
(* The store, used by one caller at a time *)

InitStore ==
    /\ triggers = <<>>
    /\ ret = [op |-> "init", arg |-> [none |-> TRUE], out |-> "none", val |-> NoneT]

Insert == (\E e \in ValidEvents : insert_trigger(e)) /\ UNCHANGED <<concVars, monVars, scoreVars, schedVars>>

\* insert_trigger called with any TriggerEvent value, a malformed one included.
InsertAny == (\E e \in Events : insert_trigger(e)) /\ UNCHANGED <<concVars, monVars, scoreVars, schedVars>>

Query == (\E a \in QueryArgs : get_triggers(a)) /\ UNCHANGED <<concVars, monVars, scoreVars, schedVars>>

Stats == get_trigger_stats /\ UNCHANGED <<concVars, monVars, scoreVars, schedVars>>

MarkProcessed == (\E id \in Ids : mark_processed(id)) /\ UNCHANGED <<concVars, monVars, scoreVars, schedVars>>

Archive == (\E id \in Ids : archive_trigger(id)) /\ UNCHANGED <<concVars, monVars, scoreVars, schedVars>>

AddNote == (\E id \in Ids, note \in Notes : add_note(id, note)) /\ UNCHANGED <<concVars, monVars, scoreVars, schedVars>>

Export == (\E filters \in ExportFilters : export_to_csv(filters)) /\ UNCHANGED <<concVars, monVars, scoreVars, schedVars>>

----------------------------------------------------------------------------
(* insert_trigger called by several workers at once.  Each call opens its   *)
(* own connection.  cursor.execute opens a transaction and takes the        *)
(* database's write lock, which one connection holds at a time: a           *)
(* connection that finds it held waits in SQLite's busy handler.  The       *)
(* INSERT is checked against the committed rows; conn.commit() publishes    *)
(* the row and conn.close() ends the transaction, either releasing the lock.*)

Workers == 1..NumWorkers

NoLock == 0

Idle == [pc |-> "idle", ev |-> None, out |-> "none", val |-> NoneT]

InitConc ==
    /\ conn = [w \in Workers |-> Idle]
    /\ lock = NoLock

\* _get_connection(), conn.cursor() and the content hash
Connect(w, e) ==
    /\ conn[w].pc = "idle"
    /\ conn' = [conn EXCEPT ![w] = [pc |-> "connected", ev |-> e, out |-> "none",
                                    val |-> NoneT]]
    /\ UNCHANGED <<triggers, lock, ret>>

\* May connection w take the write lock l?
LockFree(l, w) == l = NoLock

\* cursor.execute(INSERT ...) and trigger_id = cursor.lastrowid
Execute(w) ==
    /\ conn[w].pc = "connected"
    /\ LockFree(lock, w)
    /\ lock' = w
    /\ conn' = [conn EXCEPT ![w] =
                  IF IntegrityError(triggers, conn[w].ev)
                  THEN [@ EXCEPT !.pc = "raised"]
                  ELSE [@ EXCEPT !.pc = "executed", !.val = Some(Len(triggers) + 1)]]
    /\ UNCHANGED <<triggers, ret>>

\* conn.commit()
Commit(w) ==
    /\ conn[w].pc = "executed"
    /\ \E now \in Times :
         triggers' = Append(triggers, NewRow(triggers, conn[w].ev, now))
    /\ lock' = IF lock = w THEN NoLock ELSE lock
    /\ conn' = [conn EXCEPT ![w] = [@ EXCEPT !.pc = "committed"]]
    /\ UNCHANGED ret

\* return trigger_id, or the except clause, and conn.close() in finally
Return(w) ==
    /\ conn[w].pc \in {"committed", "raised"}
    /\ conn' = [conn EXCEPT ![w] =
                  IF conn[w].pc = "committed"
                  THEN [@ EXCEPT !.pc = "done", !.out = "id"]
                  ELSE [@ EXCEPT !.pc = "done", !.val = NoneT,
                                 !.out = IF conn[w].ev.title = None THEN "TypeError"
                                         ELSE "none"]]
    /\ lock' = IF lock = w THEN NoLock ELSE lock
    /\ UNCHANGED <<triggers, ret>>

WorkerConnect ==
    /\ \E w \in Workers, e \in ValidEvents : Connect(w, e)
    /\ UNCHANGED <<monVars, scoreVars, schedVars>>

WorkerExecute ==
    /\ \E w \in Workers : Execute(w)
    /\ UNCHANGED <<monVars, scoreVars, schedVars>>

WorkerCommit ==
    /\ \E w \in Workers : Commit(w)
    /\ UNCHANGED <<monVars, scoreVars, schedVars>>

WorkerReturn ==
    /\ \E w \in Workers : Return(w)
    /\ UNCHANGED <<monVars, scoreVars, schedVars>>

----------------------------------------------------------------------------
(* Text helpers: utils/helpers.py *)

\* The i-th character of a string, as a string of one character
Char(s, i) == SubSeq(s, i, i)

Letters == <<"a", "b", "c", "d", "e", "f", "g", "h", "i", "j", "k", "l", "m",
             "n", "o", "p", "q", "r", "s", "t", "u", "v", "w", "x", "y", "z">>

Capitals == <<"A", "B", "C", "D", "E", "F", "G", "H", "I", "J", "K", "L", "M",
              "N", "O", "P", "Q", "R", "S", "T", "U", "V", "W", "X", "Y", "Z">>

Digits == {"0", "1", "2", "3", "4", "5", "6", "7", "8", "9"}

\* \w of Python's re, on ASCII text
WordChars ==
    {Letters[i] : i \in DOMAIN Letters} \cup {Capitals[i] : i \in DOMAIN Capitals}
    \cup Digits \cup {"_"}

IsWordChar(c) == c \in WordChars

\* \s of Python's re
IsSpace(c) == c \in {" ", "\t", "\n", "\r", "\f"}

\* What [^\w\s.,!?'"-] leaves in place
IsKept(c) == IsWordChar(c) \/ IsSpace(c) \/ c \in {".", ",", "!", "?", "'", "\"", "-"}

ToLower == [c \in {Capitals[i] : i \in DOMAIN Capitals} |->
              Letters[CHOOSE i \in DOMAIN Capitals : Capitals[i] = c]]

LowerChar(c) == IF c \in DOMAIN ToLower THEN ToLower[c] ELSE c

RECURSIVE Lower(_)
\* str.lower(): character by character, the string taken by halves
Lower(s) ==
    IF s = "" THEN ""
    ELSE IF Len(s) = 1 THEN LowerChar(s)
    ELSE Lower(SubSeq(s, 1, Len(s) \div 2)) \o Lower(SubSeq(s, Len(s) \div 2 + 1, Len(s)))

\* The index of the first ">" of s at or after i, 0 when there is none
FirstClose(s, i) ==
    IF \E j \in i..Len(s) : Char(s, j) = ">"
    THEN CHOOSE j \in i..Len(s) : Char(s, j) = ">" /\ \A k \in i..(j - 1) : Char(s, k) # ">"
    ELSE 0

RECURSIVE StripTags(_)
\* re.sub(r'<[^>]+>', '', text): from the left, a "<", one or more
\* characters that are not ">", and the ">" that follows them
StripTags(s) ==
    IF s = "" THEN ""
    ELSE IF Char(s, 1) = "<" /\ FirstClose(s, 2) > 2
         THEN StripTags(SubSeq(s, FirstClose(s, 2) + 1, Len(s)))
         ELSE Char(s, 1) \o StripTags(SubSeq(s, 2, Len(s)))

RECURSIVE CollapseSpace(_)
\* re.sub(r'\s+', ' ', text)
CollapseSpace(s) ==
    IF s = "" THEN ""
    ELSE IF IsSpace(Char(s, 1))
         THEN IF Len(s) > 1 /\ IsSpace(Char(s, 2))
              THEN CollapseSpace(SubSeq(s, 2, Len(s)))
              ELSE " " \o CollapseSpace(SubSeq(s, 2, Len(s)))
         ELSE Char(s, 1) \o CollapseSpace(SubSeq(s, 2, Len(s)))

RECURSIVE DropSpecial(_)
\* re.sub(r'[^\w\s.,!?\'"-]', '', text)
DropSpecial(s) ==
    IF s = "" THEN ""
    ELSE (IF IsKept(Char(s, 1)) THEN Char(s, 1) ELSE "")
         \o DropSpecial(SubSeq(s, 2, Len(s)))

RECURSIVE Strip(_)
\* str.strip()
Strip(s) ==
    IF s = "" THEN ""
    ELSE IF IsSpace(Char(s, 1)) THEN Strip(SubSeq(s, 2, Len(s)))
    ELSE IF IsSpace(Char(s, Len(s))) THEN Strip(SubSeq(s, 1, Len(s) - 1))
    ELSE s

clean_text(text) ==
    IF text = "" THEN "" ELSE Strip(DropSpecial(CollapseSpace(StripTags(text))))

\* hashlib.md5(...).hexdigest(): a digest is never the empty string
Md5(content) == "md5:" \o content

hash_content(content) == IF content = "" THEN "" ELSE Md5(content)

\* Round n/d to the nearest integer, a tie going to the even one: Python's
\* round() on a quotient that is exact in the model's fixed point.
RoundHalfEven(n, d) ==
    LET q == n \div d
        r == n % d
    IN  IF 2 * r < d THEN q
        ELSE IF 2 * r > d THEN q + 1
        ELSE IF q % 2 = 0 THEN q ELSE q + 1

\* A keyword score without the cap at 4 points
KeywordScoreUncapped(keyword_matches) == keyword_matches * 1000

\* keyword_score = min(keyword_matches * 1.0, 4.0), in thousandths
KeywordScore(keyword_matches) == Min(keyword_matches * 1000, 4000)

\* A scorer that takes the sentiment as it comes, without the 1.0
SentimentAsIs(sentiment_score) == sentiment_score

\* sentiment_contribution = 1.0 + sentiment_score
SentimentContribution(sentiment_score) == 1000 + sentiment_score

RecencyScore(recency_days) ==
    IF recency_days <= 1 THEN 2000
    ELSE IF recency_days <= 7 THEN 1500
    ELSE IF recency_days <= 30 THEN 1000
    ELSE 500

\* reliability_score = source_reliability * 2.0
ReliabilityScore(source_reliability) == source_reliability * 2

\* A scorer that rounds and does not cap
RoundOnly(total) == RoundHalfEven(total, 100)

\* min(round(total, 1), 10.0): total in thousandths, the result in tenths.
\* (On a total that ends in exactly 50 thousandths the float's rounding may
\* go either way; the result then differs by one tenth.)
Normalize(total) == Min(RoundHalfEven(total, 100), 100)

calculate_trigger_score(keyword_matches, sentiment_score, recency_days, source_reliability) ==
    Normalize(KeywordScore(keyword_matches) + SentimentContribution(sentiment_score)
              + RecencyScore(recency_days) + ReliabilityScore(source_reliability))

\* parse_date: a date string is held as the format it is written in and
\* the days it lies back.  "%Y-%m-%d" parses to a naive datetime, the RSS
\* format "%a, %d %b %Y %H:%M:%S %z" to an aware one; an empty or
\* unreadable string gives None.
NoDate == [kind |-> "none", age |-> 0]

parse_date(date_string) ==
    IF date_string.fmt = "iso" THEN [kind |-> "naive", age |-> date_string.age]
    ELSE IF date_string.fmt = "rss" THEN [kind |-> "aware", age |-> date_string.age]
    ELSE NoDate

----------------------------------------------------------------------------
(* KeywordDetector and SentimentAnalyzer: analyzers/*.py *)

\* config/trigger_config.py, TRIGGER_KEYWORDS
TRIGGER_KEYWORDS ==
    [manufacturing_partner |->
        {"seeks manufacturing partner", "looking for contract manufacturer",
         "manufacturing partnership", "CMO agreement", "contract manufacturing deal",
         "outsource manufacturing", "third party manufacturing"},
     product_approval |->
        {"new product approval", "DCGI approval", "CDSCO approval", "drug approval",
         "product launch", "new drug application approved"},
     expansion |->
        {"capacity expansion", "new product line", "expanding portfolio",
         "geographic expansion", "market expansion plans"},
     licensing |->
        {"loan license agreement", "licensing deal", "in-licensing", "out-licensing",
         "technology transfer"},
     competitor_issues |->
        {"FDA warning letter", "import alert", "recall", "manufacturing deficiency",
         "quality issue", "plant shutdown"}]

ALL_TRIGGER_KEYWORDS == UNION {TRIGGER_KEYWORDS[c] : c \in DOMAIN TRIGGER_KEYWORDS}

\* A pattern without \b: any gap will do
NoBoundary(s, i) == TRUE

\* \b at the gap before position i of s (1..Len(s)+1): a word character on
\* exactly one side
WordBoundary(s, i) ==
    (i > 1 /\ IsWordChar(Char(s, i - 1))) # (i <= Len(s) /\ IsWordChar(Char(s, i)))

\* KeywordDetector._patterns, compiled once: re.IGNORECASE compares the
\* lower-cased keyword with the lower-cased text
Patterns == [kw \in ALL_TRIGGER_KEYWORDS |-> Lower(kw)]

\* Does the pattern \b<kw>\b occur in the lower-cased text?
Matches(pattern, lowered) ==
    \E i \in 1..(Len(lowered) - Len(pattern) + 1) :
        /\ SubSeq(lowered, i, i + Len(pattern) - 1) = pattern
        /\ WordBoundary(lowered, i)
        /\ WordBoundary(lowered, i + Len(pattern))

\* get_matched_keywords: the unique keywords detect() finds
get_matched_keywords(text) ==
    LET lowered == Lower(text)
    IN  {kw \in ALL_TRIGGER_KEYWORDS : Matches(Patterns[kw], lowered)}

POSITIVE_WORDS ==
    {"growth", "expansion", "approval", "success", "partnership", "launch", "profit",
     "milestone", "achievement", "breakthrough", "innovation", "leading", "strong",
     "positive", "increase", "revenue", "opportunity", "winning", "awarded", "excellent"}

NEGATIVE_WORDS ==
    {"recall", "warning", "failure", "decline", "loss", "issue", "problem", "shutdown",
     "closure", "lawsuit", "penalty", "violation", "deficiency", "concern", "risk",
     "drop", "shortage", "delay", "rejected", "suspended"}

\* The length of the run of word characters that starts s
RECURSIVE WordLen(_)
WordLen(s) ==
    IF s = "" \/ ~IsWordChar(Char(s, 1)) THEN 0 ELSE 1 + WordLen(SubSeq(s, 2, Len(s)))

\* Does a run of word characters start at position i of s?
WordStart(s, i) == IsWordChar(Char(s, i)) /\ (i = 1 \/ ~IsWordChar(Char(s, i - 1)))

RECURSIVE WordsFrom(_, _, _)
\* The runs of word characters of s that start within lo..hi, in order
WordsFrom(s, lo, hi) ==
    IF lo > hi THEN <<>>
    ELSE IF lo = hi
         THEN IF WordStart(s, lo)
              THEN <<SubSeq(s, lo, lo + WordLen(SubSeq(s, lo, Len(s))) - 1)>>
              ELSE <<>>
    ELSE WordsFrom(s, lo, (lo + hi) \div 2) \o WordsFrom(s, (lo + hi) \div 2 + 1, hi)

\* re.findall(r'\b\w+\b', text): the maximal runs of word characters
FindWords(s) == WordsFrom(s, 1, Len(s))

\* sum(1 for word in words if word in lexicon)
CountIn(words, lexicon) == Cardinality({i \in DOMAIN words : words[i] \in lexicon})

\* The label both analysis paths give a polarity p, before it is rounded:
\* positive above 0.1, negative below -0.1
Label(p) == IF p > 100 THEN "positive" ELSE IF p < -100 THEN "negative" ELSE "neutral"

\* The difference of the counts taken for the polarity, not divided by their sum
KeywordSentimentByDifference(positive_count, negative_count) ==
    LET polarity == 1000 * (positive_count - negative_count)
    IN  [polarity |-> polarity, label |-> Label(polarity)]

\* _analyze_with_keywords, from the two counts on: the label is taken of the
\* quotient, 10 * (p - n) > p + n being (p - n) / (p + n) > 0.1, the
\* polarity returned is the quotient rounded to three places
KeywordSentiment(positive_count, negative_count) ==
    LET total      == positive_count + negative_count
        difference == positive_count - negative_count
        polarity   == IF total = 0 THEN 0 ELSE RoundHalfEven(1000 * difference, total)
    IN  [polarity |-> polarity,
         label    |-> IF 10 * difference > total THEN "positive"
                      ELSE IF 10 * difference < -total THEN "negative"
                      ELSE "neutral"]

_analyze_with_keywords(text) ==
    LET words == FindWords(Lower(text))
    IN  KeywordSentiment(CountIn(words, POSITIVE_WORDS), CountIn(words, NEGATIVE_WORDS))

\* _analyze_with_textblob: polarity is what TextBlob makes of the text, a
\* number of [-1, 1] the library computes
_analyze_with_textblob(polarity) == [polarity |-> polarity, label |-> Label(polarity)]

\* SentimentAnalyzer.analyze.  textblob is None where TextBlob is not
\* installed, else the polarity TextBlob gives this text.
analyze_sentiment(text, textblob) ==
    IF text = "" THEN [polarity |-> 0, label |-> "neutral"]
    ELSE IF textblob # NoneT THEN _analyze_with_textblob(textblob[1])
    ELSE _analyze_with_keywords(text)

----------------------------------------------------------------------------
(* The analyze step of the four monitors, one parsed item at a time *)

\* content[:500]
ContentLimit == 500

Truncate(s, n) == SubSeq(s, 1, Min(n, Len(s)))

\* sub in text
Contains(sub, text) ==
    \E i \in 1..(Len(text) - Len(sub) + 1) : SubSeq(text, i, i + Len(sub) - 1) = sub

\* TriggerResult, without company_name, detected_at and raw_data
TriggerResult(source_type, item, keywords, sentiment_score, trigger_score, published) ==
    [source_type |-> source_type, source_name |-> item.source, title |-> item.title,
     content |-> Truncate(item.content, ContentLimit), url |-> item.url,
     trigger_keywords |-> keywords, sentiment_score |-> sentiment_score,
     trigger_score |-> trigger_score, published_at |-> published]

\* full_text = f"{item['title']} {item['content']}"
FullText(item) == item.title \o " " \o item.content

\* (datetime.now() - date).days raises TypeError on an aware datetime:
\* datetime.now() is naive
DateRaises(date) == date.kind = "aware"

\* recency_days: default unless the item has a date
RecencyDays(date, default) == IF date.kind = "none" THEN default ELSE date.age

\* The arguments of one call of calculate_trigger_score
ScorerCall(keyword_matches, sentiment_score, recency_days, source_reliability) ==
    [keyword_matches |-> keyword_matches, sentiment_score |-> sentiment_score,
     recency_days |-> recency_days, source_reliability |-> source_reliability]

\* What the call returns
ScoreOf(call) ==
    calculate_trigger_score(call.keyword_matches, call.sentiment_score, call.recency_days,
                            call.source_reliability)

\* --- NewsMonitor.analyze, the body of the loop ---
NewsRaises(item) ==
    get_matched_keywords(FullText(item)) # {} /\ DateRaises(item.published)

\* The results one item adds: none where no keyword matches
\* The call of the scorer for an item that has keywords
NewsCall(item, textblob) ==
    ScorerCall(Cardinality(get_matched_keywords(FullText(item))),
               analyze_sentiment(FullText(item), textblob).polarity,
               RecencyDays(item.published, 0), 700)

NewsResults(item, textblob) ==
    LET matched_keywords == get_matched_keywords(FullText(item))
        sentiment == analyze_sentiment(FullText(item), textblob)
    IN  IF matched_keywords = {} THEN <<>>
        ELSE <<TriggerResult("news", item, matched_keywords, sentiment.polarity,
                 ScoreOf(NewsCall(item, textblob)), item.published)>>

\* --- RegulatoryMonitor.analyze, the body of the loop ---
RegulatoryTags(item) ==
    (IF Contains("cdsco", Lower(item.source)) \/ Contains("approval", Lower(FullText(item)))
     THEN {"product_approval"} ELSE {})
    \cup (IF Contains("fda", Lower(item.source)) THEN {"fda_alert"} ELSE {})
    \cup (IF Contains("patent", Lower(item.source)) THEN {"patent_news"} ELSE {})

\* The sentiment flipped for every FDA alert
FlippedForFda(item) == Contains("fda", Lower(item.source))

\* For FDA alerts of high severity the sentiment is flipped
Flipped(item) == Contains("fda", Lower(item.source)) /\ item.severity = "high"

RegulatoryRaises(item) == DateRaises(item.date)

\* The keywords of a regulatory item: those matched, the tags, and
\* 'competitor_issue' where the sentiment is flipped
RegulatoryKeywords(item) ==
    get_matched_keywords(FullText(item)) \cup RegulatoryTags(item)
    \cup (IF Flipped(item) THEN {"competitor_issue"} ELSE {})

\* sentiment_score: the polarity, negated where the sentiment is flipped
RegulatorySentiment(item, textblob) ==
    LET sentiment == analyze_sentiment(FullText(item), textblob)
    IN  IF Flipped(item) THEN -sentiment.polarity ELSE sentiment.polarity

\* The call of the scorer: one keyword more for being regulatory
RegulatoryCall(item, textblob) ==
    ScorerCall(Cardinality(RegulatoryKeywords(item)) + 1, RegulatorySentiment(item, textblob),
               RecencyDays(item.date, 0), 850)

RegulatoryResults(item, textblob) ==
    <<TriggerResult("regulatory", item, RegulatoryKeywords(item),
                    RegulatorySentiment(item, textblob),
                    ScoreOf(RegulatoryCall(item, textblob)), item.date)>>

\* --- TenderMonitor.analyze, the body of the loop ---
\* analyze_tender's scale_scores, and 0 where the text has no quantity
OpportunityScores == {0, 2, 5, 8, 10}

TenderRaises(item) == DateRaises(item.date)

TenderKeywords(item) ==
    get_matched_keywords(FullText(item)) \cup {"tender_opportunity"}
    \cup (IF item.quantity_info.opportunity_score > 5 THEN {"high_volume_tender"} ELSE {})

\* The call of the scorer: the sentiment is 0.5 + quantity_bonus, and
\* quantity_bonus = opportunity_score / 10, in thousandths
TenderCall(item) ==
    ScorerCall(Cardinality(TenderKeywords(item)),
               500 + item.quantity_info.opportunity_score * 100,
               RecencyDays(item.date, 7), 800)

\* The TriggerResult is given sentiment_score=0.5
TenderResults(item) ==
    <<TriggerResult("tender", item, TenderKeywords(item), 500, ScoreOf(TenderCall(item)),
                    item.date)>>

\* --- FinancialMonitor.analyze, the body of the loop ---
JobSignalScore == 80

\* The call of the scorer for an item that is no job signal
FinancialCall(item, textblob) ==
    ScorerCall(Cardinality(get_matched_keywords(FullText(item))),
               analyze_sentiment(FullText(item), textblob).polarity, 7, 600)

FinancialResults(item, textblob) ==
    LET found == get_matched_keywords(FullText(item))
        sentiment == analyze_sentiment(FullText(item), textblob)
        job_signal == item.data_type = "job_signal"
        matched_keywords == IF job_signal THEN found \cup {"job_outsourcing_signal"}
                            ELSE found
        trigger_score == IF job_signal THEN JobSignalScore
                         ELSE ScoreOf(FinancialCall(item, textblob))
    IN  IF matched_keywords # {} \/ job_signal
        THEN <<TriggerResult("financial", item, matched_keywords, sentiment.polarity,
                             trigger_score, NoDate)>>
        ELSE <<>>

RECURSIVE SortedInsert(_, _)
\* r goes after every result whose score is not below its own
SortedInsert(sorted, r) ==
    IF sorted = <<>> THEN <<r>>
    ELSE IF sorted[1].trigger_score >= r.trigger_score
         THEN <<sorted[1]>> \o SortedInsert(Tail(sorted), r)
         ELSE <<r>> \o sorted

\* The results left in the order the loop appended them
Unsorted(rs) == rs

RECURSIVE SortByScore(_)
\* results.sort(key=lambda x: x.trigger_score, reverse=True): stable, the
\* results of one score keep their order
SortByScore(rs) ==
    IF rs = <<>> THEN <<>>
    ELSE SortedInsert(SortByScore(SubSeq(rs, 1, Len(rs) - 1)), rs[Len(rs)])

----------------------------------------------------------------------------
(* NewsMonitor and BaseMonitor.run: monitors/news_monitor.py, base_monitor.py *)

\* A date string as a feed writes it: its format and the days it lies back
DateString(fmt, age) == [fmt |-> fmt, age |-> age]

\* One entry of data['rss_items'] as fetch builds it
RssItem(source, title, summary, link, published) ==
    [feed |-> "rss", source |-> source, title |-> title, summary |-> summary,
     link |-> link, published |-> published]

\* One entry of data['google_news'] as _fetch_google_news builds it
GoogleItem(source_name, title, snippet, link, date) ==
    [feed |-> "google", source |-> source_name, title |-> title, summary |-> snippet,
     link |-> link, published |-> date]

RssItems ==
    {RssItem("pharmabiz", "drug recall", "issue", "u1", DateString("iso", 0)),
     RssItem("livemint_pharma", "Drug Approval", "strong growth", "u2",
             DateString("rss", 2)),
     RssItem("pharmabiz", "plant news", "", "u3", DateString("rss", 1)),
     RssItem("pharmabiz", "<b>Recall</b> &", "product launch\n success", "u4",
             DateString("empty", 0))}

GoogleItems ==
    {GoogleItem("et", "drug recall", "issue", "u5", DateString("relative", 2))}

RawItems == RssItems \cup GoogleItems

RECURSIVE SeqsUpTo(_, _)
\* The sequences of at most n members of S
SeqsUpTo(S, n) ==
    IF n = 0 THEN {<<>>}
    ELSE SeqsUpTo(S, n - 1)
         \cup {Append(q, x) : q \in {p \in SeqsUpTo(S, n - 1) : Len(p) = n - 1}, x \in S}

\* What fetch() may return
RawData ==
    {[rss_items |-> r, google_news |-> g] :
        r \in SeqsUpTo(RssItems, MaxBatch), g \in SeqsUpTo(GoogleItems, 1)}

\* TextBlob not installed, or installed and giving every text of the run
\* the one polarity
RunTextBlobs == {NoneT, Some(-500)}

\* The item parse() appends for a raw entry
ParsedItem(raw) ==
    [source |-> IF raw.feed = "rss" THEN "rss_" \o raw.source
                ELSE "google_news_" \o raw.source,
     title |-> clean_text(raw.title),
     content |-> clean_text(raw.summary),
     url |-> raw.link,
     published |-> parse_date(raw.published)]

\* ParsedItem and the content hash of every entry a fetch can hold, worked
\* out once
Parsed == [raw \in RawItems |-> ParsedItem(raw)]

\* content_hash = hash_content(f"{item['title']} {item['summary']}")
ContentHash(raw) == hash_content(raw.title \o " " \o raw.summary)

ContentHashes == [raw \in RawItems |-> ContentHash(raw)]

RECURSIVE ParseFrom(_, _)
\* The loops of parse() over the raw entries, starting with the hashes seen:
\* the items appended and the hashes seen at the end
ParseFrom(raws, seen) ==
    IF raws = <<>> THEN [items |-> <<>>, seen |-> seen]
    ELSE IF ContentHashes[raws[1]] \in seen THEN ParseFrom(Tail(raws), seen)
    ELSE LET rest == ParseFrom(Tail(raws), seen \cup {ContentHashes[raws[1]]})
         IN  [items |-> <<Parsed[raws[1]]>> \o rest.items, seen |-> rest.seen]

\* NewsMonitor.parse(raw_data), self.seen_hashes being seen
parse(raw_data, seen) == ParseFrom(raw_data.rss_items \o raw_data.google_news, seen)

RECURSIVE Concat(_)
Concat(qs) == IF qs = <<>> THEN <<>> ELSE qs[1] \o Concat(Tail(qs))

\* The loop body of analyze() on every item parse() can hand over, worked
\* out once
LoopBody ==
    [item \in {Parsed[raw] : raw \in RawItems}, textblob \in RunTextBlobs |->
        [raises |-> NewsRaises(item), results |-> NewsResults(item, textblob)]]

\* NewsMonitor.analyze(items) raises where one item's loop body raises
AnalyzeRaises(items, textblob) == \E i \in DOMAIN items : LoopBody[items[i], textblob].raises

\* NewsMonitor.analyze(items) where it returns
analyze(items, textblob) ==
    SortByScore(Concat([i \in DOMAIN items |-> LoopBody[items[i], textblob].results]))

\* self.results left as the run before left it
KeptResults(previous) == previous

\* self.results = [], the first assignment of run()
Reset(previous) == <<>>

\* finally: self.last_run = datetime.now(), the runs counted for the time
LastRunSet == last_run' = Some(IF last_run = NoneT THEN 1 ELSE last_run[1] + 1)

\* BaseMonitor.run() of a NewsMonitor, fetch() returning raw_data: where no
\* item is parsed run() returns a new [], where analyze raises it returns
\* self.results as the first assignment left it
RunNews(raw_data, textblob) ==
    LET parsed == parse(raw_data, seen_hashes)
        raised == parsed.items # <<>> /\ AnalyzeRaises(parsed.items, textblob)
        analyzed == parsed.items # <<>> /\ ~raised
        out == IF parsed.items = <<>> THEN <<>>
               ELSE IF raised THEN Reset(results)
               ELSE analyze(parsed.items, textblob)
    IN  /\ seen_hashes' = parsed.seen
        /\ results' = IF analyzed THEN out ELSE Reset(results)
        /\ LastRunSet
        /\ run' = [raw_data |-> raw_data, textblob |-> textblob, seen |-> seen_hashes,
                   items |-> parsed.items, raised |-> raised, out |-> out,
                   fault |-> IF raised THEN "analyze" ELSE "none"]

\* What keeps a run() from reaching analyze: fetch raises, fetch returns
\* nothing, parse raises
Faults == {"fetch", "no_data", "parse"}

\* The raw data with the RSS entries after the first n left out
Upto(raw_data, n) == [rss_items |-> SubSeq(raw_data.rss_items, 1, n), google_news |-> <<>>]

\* BaseMonitor.run() where it does not reach analyze.  A parse that raises
\* has gone through the first n RSS entries.
RunFails(fault, raw_data, n) ==
    /\ seen_hashes' = IF fault = "parse" THEN parse(Upto(raw_data, n), seen_hashes).seen
                      ELSE seen_hashes
    /\ results' = Reset(results)
    /\ LastRunSet
    /\ run' = [raw_data |-> raw_data, textblob |-> NoneT, seen |-> seen_hashes,
               items |-> <<>>, raised |-> fault # "no_data",
               out |-> IF fault = "no_data" THEN <<>> ELSE Reset(results),
               fault |-> fault]

RunsMade == IF last_run = NoneT THEN 0 ELSE last_run[1]

NoRun == [raw_data |-> [rss_items |-> <<>>, google_news |-> <<>>], textblob |-> NoneT,
          seen |-> {}, items |-> <<>>, raised |-> FALSE, out |-> <<>>, fault |-> "none"]

\* NewsMonitor.__init__
InitMon ==
    /\ seen_hashes = {}
    /\ results = <<>>
    /\ last_run = NoneT
    /\ run = NoRun

Run ==
    /\ RunsMade < MaxRuns
    /\ \E raw_data \in RawData, textblob \in RunTextBlobs : RunNews(raw_data, textblob)
    /\ UNCHANGED <<storeVars, concVars, scoreVars, schedVars>>

\* Fetches of at most one entry of each feed
ShortFetches ==
    {[rss_items |-> r, google_news |-> g] :
        r \in SeqsUpTo(RssItems, 1), g \in SeqsUpTo(GoogleItems, 1)}

\* A run on a short fetch
RunShort ==
    /\ RunsMade < MaxRuns
    /\ \E raw_data \in ShortFetches, textblob \in RunTextBlobs : RunNews(raw_data, textblob)
    /\ UNCHANGED <<storeVars, concVars, scoreVars, schedVars>>

\* A run that fetch or parse ends
RunFaulty ==
    /\ RunsMade < MaxRuns
    /\ \E fault \in Faults, raw_data \in ShortFetches :
         \E n \in 0..Len(raw_data.rss_items) :
            /\ (fault # "parse" => raw_data = NoRun.raw_data /\ n = 0)
            /\ (fault = "parse" => n < Len(raw_data.rss_items))
            /\ RunFails(fault, raw_data, n)
    /\ UNCHANGED <<storeVars, concVars, scoreVars, schedVars>>

----------------------------------------------------------------------------
(* The scorer and the four analyze steps, called on one input at a time *)

\* Sentiment arguments: of [-1, 1], and beyond it on either side
Sentiments == {-2000, -1000, -500, 0, 333, 1000, 1500}

Ages == {0, 1, 2, 7, 8, 30, 31}

Reliabilities == {0, 600, 850, 1000}

Titles == {"recall", "Drug Approval product launch", "market news"}

Contents == {"", "strong growth", "loss warning"}

\* What parse_date makes of an item's date
Dates ==
    {NoDate, [kind |-> "naive", age |-> 0], [kind |-> "naive", age |-> 31],
     [kind |-> "aware", age |-> 2]}

NewsItems ==
    {[source |-> "rss_pharmabiz", title |-> t, content |-> c, url |-> "u", published |-> d] :
        t \in Titles, c \in Contents, d \in Dates}

\* The source and severity the parse of RegulatoryMonitor gives an item, and
\* one it does not give: high severity of another source than the FDA
RegulatoryKinds ==
    {<<"cdsco_news", "positive">>, <<"fda_news", "high">>, <<"fda_news", "medium">>,
     <<"patent_news", "neutral">>, <<"cdsco_news", "high">>}

RegulatoryItems ==
    {[source |-> k[1], severity |-> k[2], title |-> t, content |-> c, url |-> "u",
      date |-> d] :
        k \in RegulatoryKinds, t \in Titles, c \in Contents, d \in Dates}

TenderItems ==
    {[source |-> "govt_tender_search", title |-> t, content |-> "", url |-> "u", date |-> d,
      quantity_info |-> [opportunity_score |-> o]] :
        t \in Titles, d \in Dates, o \in OpportunityScores}

DataTypes == {"quarterly_result", "stock_filing", "job_signal", "social_media"}

FinancialItems ==
    {[source |-> "financial", title |-> t, content |-> c, url |-> "u", data_type |-> dt] :
        t \in Titles, c \in Contents, dt \in DataTypes}

\* Polarities TextBlob may give a text
TextBlobPolarities == {-1000, -500, 1000}

\* TextBlob not installed, or installed and giving the text polarity p
TextBlobs == {NoneT} \cup {Some(p) : p \in TextBlobPolarities}

NoCall == [fn |-> "none", args |-> <<>>, raised |-> FALSE, value |-> NoneT,
           results |-> <<>>]

InitScore == scored = NoCall

\* The calls are independent of one another: each is made where none was
Fresh == scored = NoCall

\* One call of calculate_trigger_score
Score ==
    /\ Fresh
    /\ \E k \in 0..MaxKeywords, s \in Sentiments, d \in Ages, r \in Reliabilities :
         scored' = [fn |-> "calculate_trigger_score", args |-> <<k, s, d, r>>,
                    raised |-> FALSE,
                    value |-> Some(calculate_trigger_score(k, s, d, r)),
                    results |-> <<>>]
    /\ UNCHANGED <<storeVars, concVars, monVars, schedVars>>

\* The record of one pass of an analyze loop
Analyzed(fn, item, textblob, raised, rs) ==
    [fn |-> fn, args |-> <<item, textblob>>, raised |-> raised, value |-> NoneT,
     results |-> IF raised THEN <<>> ELSE rs]

AnalyzeNewsItem ==
    /\ Fresh
    /\ \E item \in NewsItems, textblob \in TextBlobs :
         scored' = Analyzed("news", item, textblob, NewsRaises(item),
                            NewsResults(item, textblob))
    /\ UNCHANGED <<storeVars, concVars, monVars, schedVars>>

AnalyzeRegulatoryItem ==
    /\ Fresh
    /\ \E item \in RegulatoryItems, textblob \in TextBlobs :
         scored' = Analyzed("regulatory", item, textblob, RegulatoryRaises(item),
                            RegulatoryResults(item, textblob))
    /\ UNCHANGED <<storeVars, concVars, monVars, schedVars>>

AnalyzeTenderItem ==
    /\ Fresh
    /\ \E item \in TenderItems :
         scored' = Analyzed("tender", item, NoneT, TenderRaises(item), TenderResults(item))
    /\ UNCHANGED <<storeVars, concVars, monVars, schedVars>>

AnalyzeFinancialItem ==
    /\ Fresh
    /\ \E item \in FinancialItems, textblob \in TextBlobs :
         scored' = Analyzed("financial", item, textblob, FALSE,
                            FinancialResults(item, textblob))
    /\ UNCHANGED <<storeVars, concVars, monVars, schedVars>>

----------------------------------------------------------------------------
(* The text functions, called on one input at a time *)

RECURSIVE Strings(_, _)
\* The strings of at most n characters of the alphabet A
Strings(A, n) ==
    IF n = 0 THEN {""}
    ELSE Strings(A, n - 1)
         \cup {s \o c : s \in {x \in Strings(A, n - 1) : Len(x) = n - 1}, c \in A}

\* Markup, white space, a word character and a special character
CleanAlphabet == {"a", " ", "&", "<", ">"}

\* The texts handed to clean_text, and None
CleanInputs == {NoneT} \cup {Some(t) : t \in Strings(CleanAlphabet, MaxTextLen)}

\* The record of one call that returns v
Returned(fn, args, v) ==
    [fn |-> fn, args |-> args, raised |-> FALSE, value |-> Some(v), results |-> <<>>]

\* One call of clean_text: `if not text` takes None like the empty string
CleanText ==
    /\ Fresh
    /\ \E text \in CleanInputs :
         scored' = Returned("clean_text", <<text>>,
                            IF text = NoneT THEN "" ELSE clean_text(text[1]))
    /\ UNCHANGED <<storeVars, concVars, monVars, schedVars>>

----------------------------------------------------------------------------
(* TriggerScheduler without APScheduler, as start_scheduler sets it up:      *)
(* scheduler/job_scheduler.py, main.py.  One thread per enabled job loops    *)
(* over the job's function; run_now starts one more thread for each call.   *)
(* (With APScheduler the periodic executions of one job likewise follow one *)
(* another, and run_now is the same code.)                                   *)

\* The jobs start_scheduler adds: one per monitor of SCHEDULE_CONFIG
Jobs == {"news_monitor", "tender_monitor"}

\* make_job_func(monitors[monitor_name], db): the monitor instance whose
\* run() the job's function calls. setup_monitors makes one per name.
MonitorOf(job_id) == job_id

\* What one fetch can hold, as content hashes
Feed == {"h1", "h2"}

NoExecution == [pc |-> "none", monitor |-> None, items |-> {}]

\* add_job for every monitor, enabled as SCHEDULE_CONFIG says; no start() yet
InitSched ==
    /\ scheduler = [is_running |-> FALSE,
                    jobs |-> [j \in Jobs |-> [enabled |-> TRUE, run_count |-> 0]],
                    stop_events |-> [j \in Jobs |-> "none"]]
    /\ loops = [j \in Jobs |-> NoExecution]
    /\ manual = [k \in 1..MaxRunNow |-> [job |-> None, run |-> NoExecution]]
    /\ monitors = [j \in Jobs |-> [seen_hashes |-> {}]]

\* start(): a stop event and a thread for each enabled job
Start ==
    /\ ~scheduler.is_running
    /\ \A j \in Jobs : loops[j].pc = "none"
    /\ scheduler' = [scheduler EXCEPT
                       !.is_running = TRUE,
                       !.stop_events = [j \in Jobs |->
                           IF scheduler.jobs[j].enabled THEN "clear" ELSE @[j]]]
    /\ loops' = [j \in Jobs |->
                   IF scheduler.jobs[j].enabled THEN [loops[j] EXCEPT !.pc = "loop"]
                   ELSE loops[j]]
    /\ UNCHANGED <<manual, monitors>>

\* stop(): every stop event is set
Stop ==
    /\ scheduler.is_running
    /\ scheduler' = [scheduler EXCEPT
                       !.is_running = FALSE,
                       !.stop_events = [j \in Jobs |->
                           IF @[j] = "none" THEN "none" ELSE "set"]]
    /\ UNCHANGED <<loops, manual, monitors>>

\* wrapped() calls func(): monitor.run() fetches entries and parse() keeps
\* those whose hash is not in the monitor's seen_hashes, adding every hash
BeginRun(m, entries) == [pc |-> "executing", monitor |-> m,
                         items |-> entries \ monitors[m].seen_hashes]

Seen(m, entries) ==
    [monitors EXCEPT ![m] = [seen_hashes |-> @.seen_hashes \cup entries]]

\* wrapped() after func() returned: run_count += 1
Counted(job_id) ==
    [scheduler EXCEPT !.jobs[job_id] = [@ EXCEPT !.run_count = @ + 1]]

\* _basic_scheduler_loop: `while not stop_event.is_set()` is passed
LoopTest(j) ==
    /\ loops[j].pc = "loop"
    /\ scheduler.stop_events[j] # "set"
    /\ scheduler.jobs[j].run_count < MaxJobRuns
    /\ loops' = [loops EXCEPT ![j] = [@ EXCEPT !.pc = "calling"]]
    /\ UNCHANGED <<scheduler, manual, monitors>>

\* _basic_scheduler_loop: wrapped() is called
LoopBegin(j) ==
    /\ loops[j].pc = "calling"
    /\ \E entries \in SUBSET Feed :
         /\ loops' = [loops EXCEPT ![j] = BeginRun(MonitorOf(j), entries)]
         /\ monitors' = Seen(MonitorOf(j), entries)
    /\ UNCHANGED <<scheduler, manual>>

\* wrapped() returns and the loop waits for the interval or the stop event
LoopEnd(j) ==
    /\ loops[j].pc = "executing"
    /\ loops' = [loops EXCEPT ![j] = [@ EXCEPT !.pc = "loop"]]
    /\ scheduler' = Counted(j)
    /\ UNCHANGED <<manual, monitors>>

\* the loop finds its stop event set and the thread ends
LoopExit(j) ==
    /\ loops[j].pc = "loop"
    /\ scheduler.stop_events[j] = "set"
    /\ loops' = [loops EXCEPT ![j] = [@ EXCEPT !.pc = "exited"]]
    /\ UNCHANGED <<scheduler, manual, monitors>>

\* run_now(job_id) -> _run_job: a thread for wrapped is started
RunNow(job_id) ==
    /\ \E k \in 1..MaxRunNow :
         /\ manual[k].job = None
         /\ \A i \in 1..(k - 1) : manual[i].job # None
         /\ manual' = [manual EXCEPT ![k] = [job |-> job_id,
                                             run |-> [NoExecution EXCEPT !.pc = "started"]]]
    /\ UNCHANGED <<scheduler, loops, monitors>>

\* the thread of a run_now calls func()
ManualBegin(k) ==
    /\ manual[k].run.pc = "started"
    /\ \E entries \in SUBSET Feed :
         /\ manual' = [manual EXCEPT ![k].run = BeginRun(MonitorOf(manual[k].job), entries)]
         /\ monitors' = Seen(MonitorOf(manual[k].job), entries)
    /\ UNCHANGED <<scheduler, loops>>

\* func() returned in the thread of a run_now
ManualEnd(k) ==
    /\ manual[k].run.pc = "executing"
    /\ manual' = [manual EXCEPT ![k].run = [@ EXCEPT !.pc = "finished"]]
    /\ scheduler' = Counted(manual[k].job)
    /\ UNCHANGED <<loops, monitors>>

SchedStart == Start /\ UNCHANGED <<storeVars, concVars, monVars, scoreVars>>

SchedStop == Stop /\ UNCHANGED <<storeVars, concVars, monVars, scoreVars>>

SchedRunNow ==
    /\ \E j \in Jobs : RunNow(j)
    /\ UNCHANGED <<storeVars, concVars, monVars, scoreVars>>

PeriodicTest ==
    /\ \E j \in Jobs : LoopTest(j)
    /\ UNCHANGED <<storeVars, concVars, monVars, scoreVars>>

PeriodicBegin ==
    /\ \E j \in Jobs : LoopBegin(j)
    /\ UNCHANGED <<storeVars, concVars, monVars, scoreVars>>

PeriodicEnd ==
    /\ \E j \in Jobs : LoopEnd(j)
    /\ UNCHANGED <<storeVars, concVars, monVars, scoreVars>>

PeriodicExit ==
    /\ \E j \in Jobs : LoopExit(j)
    /\ UNCHANGED <<storeVars, concVars, monVars, scoreVars>>

RunNowBegin ==
    /\ \E k \in 1..MaxRunNow : ManualBegin(k)
    /\ UNCHANGED <<storeVars, concVars, monVars, scoreVars>>

RunNowEnd ==
    /\ \E k \in 1..MaxRunNow : ManualEnd(k)
    /\ UNCHANGED <<storeVars, concVars, monVars, scoreVars>>

----------------------------------------------------------------------------
(* QuantityAnalyzer: analyzers/quantity_analyzer.py.  Python's floats are    *)
(* held as exact decimal fractions num/den, den a power of ten, in lowest    *)
(* terms of ten; rupee values likewise.                                      *)

Rat(num, den) == [num |-> num, den |-> den]

Whole(n) == Rat(n, 1)

RECURSIVE Reduce(_)
\* The one form of a decimal fraction: no common factor of ten left
Reduce(q) ==
    IF q.den > 1 /\ q.num % 10 = 0 THEN Reduce(Rat(q.num \div 10, q.den \div 10))
    ELSE q

Product(a, b) == Reduce(Rat(a.num * b.num, a.den * b.den))

Sum(a, b) == Reduce(Rat(a.num * b.den + b.num * a.den, a.den * b.den))

LessThan(a, b) == a.num * b.den < b.num * a.den

\* UNIT_CONVERSIONS: base units in one of each packaging or measure
UNIT_CONVERSIONS ==
    [u \in {"tablet", "tablets", "tab", "tabs", "capsule", "capsules", "cap", "caps",
            "vial", "vials", "ampoule", "ampoules", "amp", "amps", "ml",
            "gram", "grams", "gm", "g"} |-> Whole(1)]
    @@ [u \in {"strip", "strips", "pack", "packs", "blister", "blisters"} |-> Whole(10)]
    @@ [u \in {"box", "boxes", "carton", "cartons", "bottle", "bottles"} |-> Whole(100)]
    @@ [u \in {"liter", "liters", "litre", "litres", "l", "kg", "kilogram", "kilograms"}
          |-> Whole(1000)]
    @@ [u \in {"mg"} |-> Rat(1, 1000)]

\* UNIT_CONVERSIONS.get(unit, 1)
Conversion(unit) ==
    IF unit \in DOMAIN UNIT_CONVERSIONS THEN UNIT_CONVERSIONS[unit] ELSE Whole(1)

\* SCALE_THRESHOLDS in the order of the dict; no high bound stands for inf
SCALE_THRESHOLDS ==
    << [scale |-> "small", low |-> 0, high |-> Some(10000)],
       [scale |-> "medium", low |-> 10000, high |-> Some(100000)],
       [scale |-> "large", low |-> 100000, high |-> Some(1000000)],
       [scale |-> "enterprise", low |-> 1000000, high |-> NoneT] >>

\* low < q <= high, the bands closed at the wrong end
InBandHighInclusive(q, band) ==
    /\ band.low * q.den < q.num
    /\ band.high = NoneT \/ q.num <= band.high[1] * q.den

\* low <= normalized_quantity < high
InBand(q, band) ==
    /\ band.low * q.den <= q.num
    /\ band.high = NoneT \/ q.num < band.high[1] * q.den

RECURSIVE ScaleFrom(_, _)
\* The loop of _get_scale from the i-th band on, and the return after it
ScaleFrom(q, i) ==
    IF i > Len(SCALE_THRESHOLDS) THEN "enterprise"
    ELSE IF InBand(q, SCALE_THRESHOLDS[i]) THEN SCALE_THRESHOLDS[i].scale
    ELSE ScaleFrom(q, i + 1)

_get_scale(normalized_quantity) == ScaleFrom(normalized_quantity, 1)

\* AVG_PRICES, rupees per unit
AVG_PRICES ==
    [tablet |-> Whole(2), capsule |-> Whole(3), vial |-> Whole(50), ml |-> Rat(5, 10),
     gram |-> Whole(5), default |-> Whole(2)]

_get_unit_type(unit) ==
    CASE unit \in {"tablet", "tablets", "tab", "tabs"} -> "tablet"
      [] unit \in {"capsule", "capsules", "cap", "caps"} -> "capsule"
      [] unit \in {"vial", "vials", "ampoule", "ampoules", "amp", "amps"} -> "vial"
      [] unit \in {"ml", "liter", "liters", "litre", "litres", "l"} -> "ml"
      [] unit \in {"mg", "gram", "grams", "gm", "g", "kg", "kilogram", "kilograms"} -> "gram"
      [] OTHER -> "default"

_get_multiplier(multiplier_str) ==
    CASE multiplier_str \in {"lakh", "lac", "lakhs", "lacs"} -> 100000
      [] multiplier_str \in {"crore", "crores", "cr"} -> 10000000
      [] multiplier_str \in {"million", "mil"} -> 1000000
      [] multiplier_str \in {"k", "thousand"} -> 1000
      [] OTHER -> 1

\* The alternatives of the pattern's second group, in the order it tries them
MagnitudeWords ==
    <<"lakh", "lac", "lakhs", "lacs", "crore", "crores", "cr", "million", "mil", "k",
      "thousand">>

SpaceChars == {" ", "\t", "\n", "\r", "\f"}

LetterChars == {Letters[i] : i \in DOMAIN Letters} \cup {Capitals[i] : i \in DOMAIN Capitals}

\* Where a greedy run of characters of the class, begun at i, ends (one past it)
SkipAll(s, i, class) ==
    LET stops == {j \in i..Len(s) : Char(s, j) \notin class}
    IN  IF stops = {} THEN Len(s) + 1 ELSE CHOOSE j \in stops : \A k \in stops : j <= k

RECURSIVE SkipGroups(_, _)
\* (?:,\d{3})* from i
SkipGroups(s, i) ==
    IF i + 3 <= Len(s) /\ Char(s, i) = "," /\ \A j \in (i + 1)..(i + 3) : Char(s, j) \in Digits
    THEN SkipGroups(s, i + 4)
    ELSE i

\* (?:\.\d+)? from i
SkipFraction(s, i) ==
    IF i + 1 <= Len(s) /\ Char(s, i) = "." /\ Char(s, i + 1) \in Digits
    THEN SkipAll(s, i + 1, Digits)
    ELSE i

RECURSIVE FirstMagnitude(_, _, _)
\* The first alternative from the n-th on that the lowered text has at i, or ""
FirstMagnitude(lowered, i, n) ==
    IF n > Len(MagnitudeWords) THEN ""
    ELSE IF SubSeq(lowered, i, Min(Len(lowered), i + Len(MagnitudeWords[n]) - 1)) = MagnitudeWords[n]
         THEN MagnitudeWords[n]
         ELSE FirstMagnitude(lowered, i, n + 1)

\* The match of quantity_pattern that begins at the digit at i.  Every part
\* after the number is optional, so each greedy part keeps what it took.
MatchAt(s, lowered, i) ==
    LET number_end == SkipFraction(s, SkipGroups(s, SkipAll(s, i, Digits)))
        word_at    == SkipAll(s, number_end, SpaceChars)
        word       == FirstMagnitude(lowered, word_at, 1)
        unit_at    == SkipAll(s, word_at + Len(word), SpaceChars)
        unit_end   == SkipAll(s, unit_at, LetterChars)
    IN  [group0 |-> SubSeq(s, i, unit_end - 1),
         group1 |-> SubSeq(s, i, number_end - 1),
         group2 |-> word,
         group3 |-> SubSeq(lowered, unit_at, unit_end - 1),
         end    |-> unit_end]

RECURSIVE FindIter(_, _, _)
\* quantity_pattern.finditer(text) from position i
FindIter(s, lowered, i) ==
    IF i > Len(s) THEN <<>>
    ELSE IF Char(s, i) \in Digits
         THEN LET m == MatchAt(s, lowered, i) IN <<m>> \o FindIter(s, lowered, m.end)
         ELSE FindIter(s, lowered, i + 1)

DigitOf ==
    [c \in Digits |->
       CASE c = "0" -> 0 [] c = "1" -> 1 [] c = "2" -> 2 [] c = "3" -> 3 [] c = "4" -> 4
         [] c = "5" -> 5 [] c = "6" -> 6 [] c = "7" -> 7 [] c = "8" -> 8 [] c = "9" -> 9]

RECURSIVE ReadNumber(_, _, _, _, _)
\* float(number_str.replace(',', '')), read from i: num holds the digits read,
\* den a factor of ten for each digit read after the point
ReadNumber(s, i, num, den, fraction) ==
    IF i > Len(s) THEN Reduce(Rat(num, den))
    ELSE IF Char(s, i) = "," THEN ReadNumber(s, i + 1, num, den, fraction)
    ELSE IF Char(s, i) = "." THEN ReadNumber(s, i + 1, num, den, TRUE)
    ELSE ReadNumber(s, i + 1, 10 * num + DigitOf[Char(s, i)],
                    IF fraction THEN 10 * den ELSE den, fraction)

\* The QuantityEstimate made of one match
QuantityEstimate(m) ==
    LET base_quantity == ReadNumber(m.group1, 1, 0, 1, FALSE)
        quantity      == Product(base_quantity, Whole(_get_multiplier(m.group2)))
        unit          == IF m.group3 = "" THEN "unit" ELSE m.group3
        normalized    == Product(quantity, Conversion(unit))
    IN  [raw_text            |-> Strip(m.group0),
         quantity            |-> quantity,
         unit                |-> unit,
         normalized_quantity |-> normalized,
         estimated_value_inr |-> Product(quantity, AVG_PRICES[_get_unit_type(unit)]),
         scale               |-> _get_scale(normalized)]

\* extract_quantities; None and "" are both `not text`
extract_quantities(text) ==
    IF text = NoneT \/ text = Some("") THEN <<>>
    ELSE LET found == FindIter(text[1], Lower(text[1]), 1)
         IN  [i \in DOMAIN found |-> QuantityEstimate(found[i])]

RECURSIVE TotalValue(_)
\* sum(q.estimated_value_inr for q in quantities)
TotalValue(quantities) ==
    IF quantities = <<>> THEN Whole(0)
    ELSE Sum(quantities[1].estimated_value_inr, TotalValue(Tail(quantities)))

\* The first of the largest by quantity, whatever the unit
MaxByQuantity(quantities) ==
    LET best == CHOOSE i \in DOMAIN quantities :
                  /\ \A j \in DOMAIN quantities :
                       ~LessThan(quantities[i].quantity, quantities[j].quantity)
                  /\ \A j \in 1..(i - 1) :
                       LessThan(quantities[j].quantity, quantities[i].quantity)
    IN  quantities[best]

\* max(quantities, key=normalized_quantity): the first of the largest
MaxByNormalized(quantities) ==
    LET best == CHOOSE i \in DOMAIN quantities :
                  /\ \A j \in DOMAIN quantities :
                       ~LessThan(quantities[i].normalized_quantity,
                                 quantities[j].normalized_quantity)
                  /\ \A j \in 1..(i - 1) :
                       LessThan(quantities[j].normalized_quantity,
                                quantities[i].normalized_quantity)
    IN  quantities[best]

scale_scores == [small |-> 2, medium |-> 5, large |-> 8, enterprise |-> 10]

\* analyze_tender without its early return: nothing found counts as a small batch
AnalyzeTenderWithoutReturn(tender_text) ==
    LET quantities == extract_quantities(tender_text)
        max_scale  == IF quantities = <<>> THEN "small"
                      ELSE MaxByNormalized(quantities).scale
    IN  [has_quantities |-> TRUE, quantities |-> quantities,
         total_estimated_value |-> TotalValue(quantities), max_scale |-> max_scale,
         opportunity_score |-> scale_scores[max_scale]]

analyze_tender(tender_text) ==
    LET quantities == extract_quantities(tender_text)
        max_scale  == MaxByNormalized(quantities).scale
    IN  IF quantities = <<>>
        THEN [has_quantities |-> FALSE, quantities |-> <<>>,
              total_estimated_value |-> Whole(0), max_scale |-> "unknown",
              opportunity_score |-> 0]
        ELSE [has_quantities |-> TRUE, quantities |-> quantities,
              total_estimated_value |-> TotalValue(quantities), max_scale |-> max_scale,
              opportunity_score |-> scale_scores[max_scale]]

----------------------------------------------------------------------------
(* The quantity analyzer, called on one input at a time *)

\* Normalized quantities on and next to the edges of the bands, in whole
\* units and in thousandths
ScaleEdges == {0, 10000, 100000, 1000000}

ScaleInputs ==
    {Reduce(Rat(e * d + k, d)) : e \in ScaleEdges, d \in {1, 1000}, k \in {-1, 0, 1}}
    \ {Rat(-1, 1), Rat(-1, 1000)}

\* One call of _get_scale
GetScale ==
    /\ Fresh
    /\ \E q \in ScaleInputs : scored' = Returned("_get_scale", <<q>>, _get_scale(q))
    /\ UNCHANGED <<storeVars, concVars, monVars, schedVars>>

\* The numbers written in the texts, with what they stand for
NumberTokens ==
    {[text |-> "5", value |-> Whole(5)], [text |-> "2", value |-> Whole(2)],
     [text |-> "10,000", value |-> Whole(10000)], [text |-> "2.5", value |-> Rat(25, 10)]}

\* A magnitude word of the pattern, or none
Magnitudes == {MagnitudeWords[i] : i \in DOMAIN MagnitudeWords} \cup {""}

\* The recognized unit words
UnitWords == DOMAIN UNIT_CONVERSIONS

\* The largest number the arithmetic of the model is carried out in
Largest == 2000000000

\* The phrase's quantity, converted or priced, stays within Largest
Fits(number, magnitude, unit) ==
    LET factor == IF Conversion(unit).num > 50 THEN Conversion(unit).num ELSE 50
    IN  number.value.num <= (Largest \div _get_multiplier(magnitude)) \div factor

\* "5 lakh tablets", "5 kg": the parts that are there, one space between them
Phrase(number, magnitude, unit) ==
    number.text \o (IF magnitude = "" THEN "" ELSE " " \o magnitude) \o " " \o unit

\* One call of extract_quantities on a number, a magnitude word and a unit
ExtractQuantities ==
    /\ Fresh
    /\ \E number \in NumberTokens, magnitude \in Magnitudes, unit \in UnitWords :
         /\ Fits(number, magnitude, unit)
         /\ scored' = [fn |-> "extract_quantities", args |-> <<number, magnitude, unit>>,
                       raised |-> FALSE, value |-> Some(Phrase(number, magnitude, unit)),
                       results |-> extract_quantities(Some(Phrase(number, magnitude, unit)))]
    /\ UNCHANGED <<storeVars, concVars, monVars, schedVars>>

\* Quantities a tender names
TenderPhrases ==
    {"5 lakh tablets", "2 boxes", "100 boxes", "1000 tablets", "10,000 tablets",
     "10 lakh tablets", "100 strips", "5 mg"}

\* Tender texts: None, texts without a number, one quantity, two quantities
TenderTexts ==
    {NoneT, Some(""), Some("no numbers"), Some("supply of tablets, lakh strips")}
    \cup {Some("supply of " \o p) : p \in TenderPhrases}
    \cup {Some(p \o " and " \o r) : p \in TenderPhrases, r \in TenderPhrases}

\* One call of analyze_tender
AnalyzeTender ==
    /\ Fresh
    /\ \E tender_text \in TenderTexts :
         scored' = Returned("analyze_tender", <<tender_text>>, analyze_tender(tender_text))
    /\ UNCHANGED <<storeVars, concVars, monVars, schedVars>>

----------------------------------------------------------------------------
(* KeywordDetector.detect and the fallback sentiment, called on one input   *)
(* at a time                                                                *)

\* TRIGGER_KEYWORDS as the dict holds it: the categories in order, each with
\* its list of phrases in order
DefaultKeywords ==
    << [category |-> "manufacturing_partner",
        keywords |-> <<"seeks manufacturing partner", "looking for contract manufacturer",
                       "manufacturing partnership", "CMO agreement",
                       "contract manufacturing deal", "outsource manufacturing",
                       "third party manufacturing">>],
       [category |-> "product_approval",
        keywords |-> <<"new product approval", "DCGI approval", "CDSCO approval",
                       "drug approval", "product launch", "new drug application approved">>],
       [category |-> "expansion",
        keywords |-> <<"capacity expansion", "new product line", "expanding portfolio",
                       "geographic expansion", "market expansion plans">>],
       [category |-> "licensing",
        keywords |-> <<"loan license agreement", "licensing deal", "in-licensing",
                       "out-licensing", "technology transfer">>],
       [category |-> "competitor_issues",
        keywords |-> <<"FDA warning letter", "import alert", "recall",
                       "manufacturing deficiency", "quality issue", "plant shutdown">>] >>

\* self.keywords = custom_keywords or TRIGGER_KEYWORDS: None and the empty
\* dict both give the default table
Keywords(custom_keywords) ==
    IF custom_keywords = NoneT \/ custom_keywords = Some(<<>>) THEN DefaultKeywords
    ELSE custom_keywords[1]

\* Does \b<keyword>\b, ignoring case, match the text at position i (from 1)?
MatchesAt(keyword, lowered, i) ==
    /\ i + Len(keyword) - 1 <= Len(lowered)
    /\ SubSeq(lowered, i, i + Len(keyword) - 1) = Lower(keyword)
    /\ WordBoundary(lowered, i)
    /\ WordBoundary(lowered, i + Len(keyword))

\* The text 50 characters to either side of a match
ContextWidth == 50

\* text[start:end].strip() around the match at i
Context(text, i, length) ==
    LET start == IF i - 1 - ContextWidth > 0 THEN i - 1 - ContextWidth ELSE 0
        end   == Min(Len(text), i - 1 + length + ContextWidth)
    IN  Strip(SubSeq(text, start + 1, end))

RECURSIVE FindMatches(_, _, _, _, _)
\* pattern.finditer(text) from position i on: after a match the search goes
\* on behind it.  Positions are reported from 0.
FindMatches(category, keyword, text, lowered, i) ==
    IF i > Len(text) THEN <<>>
    ELSE IF MatchesAt(keyword, lowered, i)
         THEN <<[keyword |-> keyword, category |-> category, position |-> i - 1,
                 context |-> Context(text, i, Len(keyword))]>>
              \o FindMatches(category, keyword, text, lowered, i + Len(keyword))
         ELSE FindMatches(category, keyword, text, lowered, i + 1)

RECURSIVE DetectKeywords(_, _, _, _, _)
\* The loop over one category's (keyword, pattern) pairs from the n-th on
DetectKeywords(category, keywords, text, lowered, n) ==
    IF n > Len(keywords) THEN <<>>
    ELSE FindMatches(category, keywords[n], text, lowered, 1)
         \o DetectKeywords(category, keywords, text, lowered, n + 1)

RECURSIVE DetectCategories(_, _, _, _)
\* The loop over self._patterns from the n-th category on
DetectCategories(patterns, text, lowered, n) ==
    IF n > Len(patterns) THEN <<>>
    ELSE DetectKeywords(patterns[n].category, patterns[n].keywords, text, lowered, 1)
         \o DetectCategories(patterns, text, lowered, n + 1)

\* KeywordDetector(custom_keywords).detect(text)
detect(custom_keywords, text) ==
    IF text = NoneT \/ text = Some("") THEN <<>>
    ELSE DetectCategories(Keywords(custom_keywords), text[1], Lower(text[1]), 1)

\* Detector configurations: the default one, an empty one, and tables of
\* short phrases, some beginning or ending in a character that is no word
\* character, one phrase in two categories
Configurations ==
    {NoneT, Some(<<>>),
     Some(<< [category |-> "x", keywords |-> <<"a", "ab", "b a">>],
             [category |-> "y", keywords |-> <<"B", "a">>] >>),
     Some(<< [category |-> "z", keywords |-> <<"-a", "a-", "a-b", "aa">>] >>)}

\* What the short texts are made of
DetectAlphabet == {"a", "B", " ", "-"}

\* Texts handed to detect: None, every short text, and some that name default
\* phrases whole, inside longer words and in other case
DetectTexts ==
    {NoneT} \cup {Some(t) : t \in Strings(DetectAlphabet, MaxDetectLen)}
    \cup {Some("Product recall: FDA Warning Letter"), Some("precalls and recalled"),
          Some("recall recall"), Some("out-licensing of non-recall. in-licensing")}

\* Words of the texts, with the list each is on: positive and negative
\* words, one in capitals, a word on no list and a longer word that holds a
\* listed one
Vocabulary ==
    {[text |-> "growth", list |-> "positive"], [text |-> "Approval", list |-> "positive"],
     [text |-> "recall", list |-> "negative"], [text |-> "LOSS", list |-> "negative"],
     [text |-> "the", list |-> "none"], [text |-> "recalls", list |-> "none"]}

RECURSIVE Sentence(_)
\* The words with one space between them
Sentence(words) ==
    IF words = <<>> THEN ""
    ELSE IF Len(words) = 1 THEN words[1].text
    ELSE words[1].text \o " " \o Sentence(Tail(words))

\* One call of _analyze_with_keywords, the path taken without TextBlob
AnalyzeWithKeywords ==
    /\ Fresh
    /\ \E n \in 0..MaxWords : \E words \in [1..n -> Vocabulary] :
         scored' = [fn |-> "_analyze_with_keywords", args |-> <<words>>, raised |-> FALSE,
                    value |-> Some(_analyze_with_keywords(Sentence(words))),
                    results |-> <<>>]
    /\ UNCHANGED <<storeVars, concVars, monVars, schedVars>>

\* One call of detect on a detector made with the configuration
Detect ==
    /\ Fresh
    /\ \E custom_keywords \in Configurations, text \in DetectTexts :
         scored' = [fn |-> "detect", args |-> <<custom_keywords, text>>, raised |-> FALSE,
                    value |-> NoneT, results |-> detect(custom_keywords, text)]
    /\ UNCHANGED <<storeVars, concVars, monVars, schedVars>>

----------------------------------------------------------------------------
(* The analyze step of each monitor on a batch of parsed items *)

MonitorKinds == {"news", "regulatory", "tender", "financial"}

\* Dates of the batches' items: today, 31 days back, and one with a time zone
BatchDates == {[kind |-> "naive", age |-> 0], [kind |-> "naive", age |-> 31]}

AwareDate == [kind |-> "aware", age |-> 2]

\* Parsed items each monitor's analyze may be handed
BatchItems ==
    [news |-> {i \in NewsItems : i.content = "" /\ i.published \in BatchDates \cup {AwareDate}},
     regulatory |-> {i \in RegulatoryItems : i.content = "" /\ i.date \in BatchDates},
     tender |-> {i \in TenderItems :
                   i.date \in BatchDates /\ i.quantity_info.opportunity_score \in {0, 5, 10}},
     financial |-> {i \in FinancialItems : i.content = ""}]

\* TextBlob as each monitor's sentiment analyzer may find it; the tender
\* monitor has no sentiment analyzer
BatchTextBlobs ==
    [news |-> RunTextBlobs, regulatory |-> RunTextBlobs, tender |-> {NoneT},
     financial |-> RunTextBlobs]

BatchCalls ==
    {<<m, item, textblob>> : m \in MonitorKinds, item \in UNION {BatchItems[k] : k \in MonitorKinds},
                             textblob \in RunTextBlobs}

\* The loop body of each monitor's analyze() on each item, worked out once
BatchBody ==
    [call \in {c \in BatchCalls : c[2] \in BatchItems[c[1]] /\ c[3] \in BatchTextBlobs[c[1]]} |->
        CASE call[1] = "news" ->
               [raises |-> NewsRaises(call[2]), results |-> NewsResults(call[2], call[3])]
          [] call[1] = "regulatory" ->
               [raises |-> RegulatoryRaises(call[2]),
                results |-> RegulatoryResults(call[2], call[3])]
          [] call[1] = "tender" ->
               [raises |-> TenderRaises(call[2]), results |-> TenderResults(call[2])]
          [] call[1] = "financial" ->
               [raises |-> FALSE, results |-> FinancialResults(call[2], call[3])]]

\* analyze(items) of the monitor raises where one item's loop body raises
BatchRaises(m, items, textblob) ==
    \E i \in DOMAIN items : BatchBody[<<m, items[i], textblob>>].raises

\* analyze(items) of the monitor where it returns: the loop, then the sort
AnalyzeOf(m, items, textblob) ==
    SortByScore(Concat([i \in DOMAIN items |-> BatchBody[<<m, items[i], textblob>>].results]))

\* One call of a monitor's analyze on a batch
AnalyzeBatch ==
    /\ Fresh
    /\ \E m \in MonitorKinds, n \in 0..BatchSize :
         \E items \in [1..n -> BatchItems[m]], textblob \in BatchTextBlobs[m] :
           scored' = [fn |-> "analyze", args |-> <<m, items, textblob>>,
                      raised |-> BatchRaises(m, items, textblob), value |-> NoneT,
                      results |-> IF BatchRaises(m, items, textblob) THEN <<>>
                                  ELSE AnalyzeOf(m, items, textblob)]
    /\ UNCHANGED <<storeVars, concVars, monVars, schedVars>>

----------------------------------------------------------------------------
(* The parse step, one pass of a monitor that has seen nothing yet:         *)
(* monitors/news_monitor.py, financial_monitor.py                           *)

\* One entry of data['quarterly_results']: announcement is absent in what
\* Screener gives, present in what the news fallback gives
Quarterly(company, announcement, sales_growth, url) ==
    [kind |-> "quarterly_result", company |-> company, announcement |-> announcement,
     sales_growth |-> sales_growth, url |-> url]

\* One entry of data['stock_filings'] or data['social_media']
Filing(kind, source, title, snippet, url) ==
    [kind |-> kind, source |-> source, title |-> title, snippet |-> snippet, url |-> url]

\* One entry of data['job_postings']
Posting(company, sales_jobs, outsourcing_signal) ==
    [kind |-> "job_signal", company |-> company, sales_jobs |-> sales_jobs,
     outsourcing_signal |-> outsourcing_signal]

QuarterlyResults ==
    {Quarterly("Cipla", Some("capacity expansion"), "12%", "q1"),
     Quarterly("Cipla", NoneT, "12%", "q2")}

\* Two filings of one title and different snippets, and one of another title
StockFilings ==
    {Filing("stock_filing", "stock_filing", "Sun Pharma board meeting", "profit up", "f1"),
     Filing("stock_filing", "stock_filing", "Sun Pharma board meeting", "plant shutdown", "f2"),
     Filing("stock_filing", "stock_filing", "Cipla product launch", "", "f3")}

JobPostings == {Posting("Cipla", "12", TRUE), Posting("Lupin", "3", FALSE)}

SocialMedia ==
    {Filing("social_media", "social", "Sun Pharma board meeting", "recall rumour", "s1")}

\* What FinancialMonitor.fetch() may return
FinancialRawData ==
    {[quarterly_results |-> q, stock_filings |-> f, job_postings |-> j, social_media |-> m] :
        q \in SeqsUpTo(QuarterlyResults, 1), f \in SeqsUpTo(StockFilings, MaxBatch),
        j \in SeqsUpTo(JobPostings, 1), m \in SeqsUpTo(SocialMedia, 1)}

\* The content hash FinancialMonitor.parse takes of an entry: company and
\* announcement of a quarterly result, the title alone of a filing or post
FinancialHash(raw) ==
    IF raw.kind = "quarterly_result"
    THEN hash_content(raw.company \o "_"
                      \o (IF raw.announcement = NoneT THEN "" ELSE raw.announcement[1]))
    ELSE hash_content(raw.title)

\* The item FinancialMonitor.parse appends for an entry
FinancialItem(raw) ==
    CASE raw.kind = "quarterly_result" ->
           [source |-> "financial", title |-> raw.company \o " Financial Update",
            content |-> IF raw.announcement = NoneT
                        THEN "Sales Growth: " \o raw.sales_growth
                        ELSE raw.announcement[1],
            url |-> raw.url, data_type |-> raw.kind]
      [] raw.kind = "job_signal" ->
           [source |-> "job_analysis",
            title |-> raw.company \o " - Outsourcing Signal Detected",
            content |-> "Hiring " \o raw.sales_jobs \o " sales roles, 0 manufacturing roles",
            url |-> "", data_type |-> raw.kind]
      [] OTHER ->
           [source |-> raw.source, title |-> raw.title, content |-> raw.snippet,
            url |-> raw.url, data_type |-> raw.kind]

RECURSIVE FinancialParseFrom(_, _)
\* The four loops of FinancialMonitor.parse over the entries in turn: job
\* postings are appended where they carry the signal and are not hashed,
\* every other entry is skipped where its hash has been seen
FinancialParseFrom(raws, seen) ==
    IF raws = <<>> THEN [items |-> <<>>, seen |-> seen]
    ELSE IF raws[1].kind = "job_signal"
         THEN LET rest == FinancialParseFrom(Tail(raws), seen)
              IN  [items |-> (IF raws[1].outsourcing_signal
                              THEN <<FinancialItem(raws[1])>> ELSE <<>>) \o rest.items,
                   seen |-> rest.seen]
    ELSE IF FinancialHash(raws[1]) \in seen THEN FinancialParseFrom(Tail(raws), seen)
    ELSE LET rest == FinancialParseFrom(Tail(raws), seen \cup {FinancialHash(raws[1])})
         IN  [items |-> <<FinancialItem(raws[1])>> \o rest.items, seen |-> rest.seen]

\* The entries in the order parse() goes through them
FinancialEntries(raw_data) ==
    raw_data.quarterly_results \o raw_data.stock_filings \o raw_data.job_postings
    \o raw_data.social_media

\* FinancialMonitor.parse(raw_data), self.seen_hashes being seen
financial_parse(raw_data, seen) == FinancialParseFrom(FinancialEntries(raw_data), seen)

\* One parse pass of a new NewsMonitor
ParseNews ==
    /\ Fresh
    /\ \E raw_data \in RawData :
         scored' = [fn |-> "parse",
                    args |-> <<"news", raw_data.rss_items \o raw_data.google_news>>,
                    raised |-> FALSE, value |-> Some(parse(raw_data, {}).seen),
                    results |-> parse(raw_data, {}).items]
    /\ UNCHANGED <<storeVars, concVars, monVars, schedVars>>

\* One parse pass of a new FinancialMonitor
ParseFinancial ==
    /\ Fresh
    /\ \E raw_data \in FinancialRawData :
         scored' = [fn |-> "parse", args |-> <<"financial", FinancialEntries(raw_data)>>,
                    raised |-> FALSE, value |-> Some(financial_parse(raw_data, {}).seen),
                    results |-> financial_parse(raw_data, {}).items]
    /\ UNCHANGED <<storeVars, concVars, monVars, schedVars>>

----------------------------------------------------------------------------
(* The quick-access queries of SentimentAnalyzer: each one calls analyze *)

get_polarity(text, textblob) == analyze_sentiment(text, textblob).polarity

get_label(text, textblob) == analyze_sentiment(text, textblob).label

\* analyze(text)['polarity'] < -0.1, of the polarity analyze returns
is_negative(text, textblob) == analyze_sentiment(text, textblob).polarity < -100

\* analyze(text)['polarity'] > 0.1
is_positive(text, textblob) == analyze_sentiment(text, textblob).polarity > 100

RECURSIVE Repeated(_, _)
\* n times the word, one space after each
Repeated(word, n) ==
    IF n = 0 THEN ""
    ELSE IF n = 1 THEN word \o " "
    ELSE Repeated(word, n \div 2) \o Repeated(word, n - n \div 2)

\* Numbers of positive and negative words of the long texts
ManyWords == 115

FewerWords == 94

\* Texts of up to MaxWords words, and texts of 209 listed words, whose
\* quotient of counts is 21/209, just above 0.1
QuickTexts ==
    {Sentence(words) : words \in UNION {[1..n -> Vocabulary] : n \in 0..MaxWords}}
    \cup {Repeated("profit", ManyWords) \o Repeated("loss", FewerWords),
          Repeated("loss", ManyWords) \o Repeated("profit", FewerWords)}

\* The four queries on one text, one after another
QuickAccess ==
    /\ Fresh
    /\ \E text \in QuickTexts, textblob \in TextBlobs :
         scored' = Returned("quick_access", <<text, textblob>>,
                            [polarity    |-> get_polarity(text, textblob),
                             label       |-> get_label(text, textblob),
                             is_negative |-> is_negative(text, textblob),
                             is_positive |-> is_positive(text, textblob)])
    /\ UNCHANGED <<storeVars, concVars, monVars, schedVars>>

----------------------------------------------------------------------------
(* run_all_monitors of main.py: every monitor is run and its results are    *)
(* stored, one try block around each monitor                                *)

\* The monitors of setup_monitors, in the order of the dict
MonitorNames == <<"news_monitor", "regulatory_monitor", "tender_monitor", "financial_monitor">>

\* The TriggerEvents made of a monitor's results: two that can be stored and
\* one whose insert raises (the title is None)
StorableA == Event("news", "a", "b", "", "sun", 70, Some(1), FALSE)

StorableB == Event("tender", "b", "", "", None, 65, Some(2), FALSE)

Unstorable == Event("news", None, "", "", None, 70, Some(1), FALSE)

\* What monitor.run() does for run_all_monitors: it raises, or returns results
RunOutcomes ==
    {[raises |-> TRUE, results |-> <<>>]}
    \cup {[raises |-> FALSE, results |-> rs] :
            rs \in {<<>>, <<StorableA>>, <<StorableB>>, <<StorableA, StorableB>>,
                    <<Unstorable, StorableA>>, <<StorableB, Unstorable>>}}

\* The table after db.insert_trigger(e) where it returns
Inserted(t, e) == IF IntegrityError(t, e) THEN t ELSE Append(t, NewRow(t, e, 1))

RECURSIVE StoreResults(_, _)
\* The loop over one monitor's results: the first insert that raises ends it
StoreResults(t, rs) ==
    IF rs = <<>> THEN [table |-> t, raised |-> FALSE]
    ELSE IF InsertOutcome(t, Head(rs)) = "TypeError" THEN [table |-> t, raised |-> TRUE]
    ELSE StoreResults(Inserted(t, Head(rs)), Tail(rs))

\* The loop ended by the first failure, as without the except clause
Uncaught(failed) == ~failed

\* except Exception: the failure is logged and the loop goes on
Caught(failed) == TRUE

RECURSIVE RunMonitors(_, _, _, _)
\* The loop over the monitors from the i-th on, outcomes[i] being what the
\* i-th monitor's run() does
RunMonitors(t, all_results, outcomes, i) ==
    IF i > Len(outcomes) THEN [table |-> t, all_results |-> all_results]
    ELSE IF outcomes[i].raises
         THEN IF Caught(TRUE) THEN RunMonitors(t, all_results, outcomes, i + 1)
              ELSE [table |-> t, all_results |-> all_results]
    ELSE LET stored == StoreResults(t, outcomes[i].results)
             extended == all_results \o outcomes[i].results
         IN  IF Caught(stored.raised)
             THEN RunMonitors(stored.table, extended, outcomes, i + 1)
             ELSE [table |-> stored.table, all_results |-> extended]

run_all_monitors(outcomes) ==
    LET done == RunMonitors(triggers, <<>>, outcomes, 1)
    IN  /\ triggers' = done.table
        /\ ret' = [op |-> "run_all_monitors", arg |-> outcomes, out |-> "results",
                   val |-> done.all_results]

\* One call, on the empty store
RunAllMonitors ==
    /\ ret.op # "run_all_monitors"
    /\ \E outcomes \in [DOMAIN MonitorNames -> RunOutcomes] : run_all_monitors(outcomes)
    /\ UNCHANGED <<concVars, monVars, scoreVars, schedVars>>

----------------------------------------------------------------------------
(* TriggerScheduler without APScheduler: jobs added enabled or disabled,     *)
(* enable_job and disable_job                                                *)

\* add_job(job_id, func, interval_hours, enabled) for every job, each with
\* its own enabled; no start() yet
InitJobs ==
    /\ \E enabled \in [Jobs -> BOOLEAN] :
         scheduler = [is_running |-> FALSE,
                      jobs |-> [j \in Jobs |-> [enabled |-> enabled[j], run_count |-> 0]],
                      stop_events |-> [j \in Jobs |-> "none"]]
    /\ loops = [j \in Jobs |-> NoExecution]
    /\ manual = [k \in 1..MaxRunNow |-> [job |-> None, run |-> NoExecution]]
    /\ monitors = [j \in Jobs |-> [seen_hashes |-> {}]]

\* enable_job(job_id): the flag is set
enable_job(job_id) ==
    /\ scheduler' = [scheduler EXCEPT !.jobs[job_id] = [@ EXCEPT !.enabled = TRUE]]
    /\ UNCHANGED <<loops, manual, monitors>>

\* disable_job(job_id): the flag is cleared; there is no APScheduler job to pause
disable_job(job_id) ==
    /\ scheduler' = [scheduler EXCEPT !.jobs[job_id] = [@ EXCEPT !.enabled = FALSE]]
    /\ UNCHANGED <<loops, manual, monitors>>

EnableJob ==
    /\ \E j \in Jobs : enable_job(j)
    /\ UNCHANGED <<storeVars, concVars, monVars, scoreVars>>

DisableJob ==
    /\ \E j \in Jobs : disable_job(j)
    /\ UNCHANGED <<storeVars, concVars, monVars, scoreVars>>

----------------------------------------------------------------------------
(* Specifications *)

vars ==
    <<triggers, ret, conn, lock, seen_hashes, results, last_run, run, scored,
      scheduler, loops, manual, monitors>>

Init == InitStore /\ InitConc /\ InitMon /\ InitScore /\ InitSched

Next == Insert \/ Query \/ Stats \/ MarkProcessed \/ Archive \/ AddNote

Spec == Init /\ [][Next]_vars

NextApi == InsertAny \/ Stats \/ Archive

SpecApi == Init /\ [][NextApi]_vars

NextConc == WorkerConnect \/ WorkerExecute \/ WorkerCommit \/ WorkerReturn

SpecConc == Init /\ [][NextConc]_vars

NextMon == Run

SpecMon == Init /\ [][NextMon]_vars

NextRun == RunShort \/ RunFaulty

SpecRun == Init /\ [][NextRun]_vars

NextScore ==
    Score \/ AnalyzeNewsItem \/ AnalyzeRegulatoryItem \/ AnalyzeTenderItem
    \/ AnalyzeFinancialItem

SpecScore == Init /\ [][NextScore]_vars

NextSched ==
    SchedStart \/ SchedStop \/ SchedRunNow \/ PeriodicTest \/ PeriodicBegin \/ PeriodicEnd
    \/ PeriodicExit \/ RunNowBegin \/ RunNowEnd

SpecSched == Init /\ [][NextSched]_vars

NextText == CleanText \/ Detect \/ AnalyzeWithKeywords

SpecText == Init /\ [][NextText]_vars

NextQuantity == GetScale \/ ExtractQuantities \/ AnalyzeTender

SpecQuantity == Init /\ [][NextQuantity]_vars

NextExport == Insert \/ Archive \/ Export

SpecExport == Init /\ [][NextExport]_vars

NextBatch == AnalyzeBatch

SpecBatch == Init /\ [][NextBatch]_vars

NextParse == ParseNews \/ ParseFinancial

SpecParse == Init /\ [][NextParse]_vars

NextQuick == QuickAccess

SpecQuick == Init /\ [][NextQuick]_vars

NextAll == RunAllMonitors

SpecAll == Init /\ [][NextAll]_vars

InitAdded == InitStore /\ InitConc /\ InitMon /\ InitScore /\ InitJobs

NextJobs ==
    SchedStart \/ SchedStop \/ EnableJob \/ DisableJob \/ PeriodicTest \/ PeriodicBegin
    \/ PeriodicEnd \/ PeriodicExit

SpecJobs == InitAdded /\ [][NextJobs]_vars

----------------------------------------------------------------------------
(* Claims about the store *)

SameText(r, e) == r.title \o r.content \o r.url = e.title \o e.content \o e.url

Stored(t, e) == \E i \in 1..Len(t) : SameText(t[i], e)

NonArchivedCount(t) == Cardinality({ i \in 1..Len(t) : ~t[i].is_archived })

\* C1: an insert_trigger call with an event whose title+content+url text is
\* not stored returns an integer id and raises get_trigger_stats' total by
\* one; a call with an event whose text is stored (the second of two calls
\* with identical title, content and url) returns None and leaves the total
\* as it was: across the two calls the total grows by exactly one.
C1_InsertTwice ==
    [][ret'.op = "insert_trigger" =>
         IF Stored(triggers, ret'.arg)
         THEN /\ ret'.out = "none"
              /\ ret'.val = NoneT
              /\ TotalTriggers(triggers') = TotalTriggers(triggers)
              /\ NonArchivedCount(triggers') = NonArchivedCount(triggers)
         ELSE /\ ret'.out = "id"
              /\ ret'.val = Some(Len(triggers) + 1)
              /\ TotalTriggers(triggers') = TotalTriggers(triggers) + 1
              /\ NonArchivedCount(triggers') = NonArchivedCount(triggers) + 1]_vars

\* The second of two inserts of one event has returned None, the store
\* holding the one row of the first.
C1_Witness ==
    /\ ret.op = "insert_trigger"
    /\ ret.out = "none"
    /\ Len(triggers) = 1
    /\ triggers[1].title = ret.arg.title
    /\ triggers[1].content = ret.arg.content
    /\ triggers[1].url = ret.arg.url
    /\ TotalTriggers(triggers) = 1

\* C3: insert_trigger returns None only for an event whose text is already
\* stored; a write that fails for another reason (a missing required field)
\* is never reported as None.
C3_NoneOnlyForDuplicate ==
    (ret.op = "insert_trigger" /\ ret.out = "none") => Stored(triggers, ret.arg)

RanksBefore(r, s) ==
    \/ r.trigger_score > s.trigger_score
    \/ r.trigger_score = s.trigger_score /\ r.detected_at[1] > s.detected_at[1]

InResult(q, r) == \E i \in 1..Len(q) : q[i] = r

IsScoreQuery(c) ==
    /\ c.op = "get_triggers"
    /\ c.arg.source_type = None
    /\ c.arg.company_name = None
    /\ c.arg.min_score # NoneT
    /\ ~c.arg.include_archived

\* C8: get_triggers(min_score=m, limit=n), n >= 0, returns at most n events,
\* each stored, not archived and of trigger_score >= m, in descending order of
\* trigger_score and, among equal scores, of detected_at; and no stored
\* non-archived event of score >= m is left out while an event ranking
\* strictly after it is returned.
C8_QueryBoundedFilteredOrdered ==
    IsScoreQuery(ret) =>
        LET q == ret.val
            m == ret.arg.min_score[1]
            n == ret.arg.limit
        IN /\ Len(q) <= n
           /\ \A i \in 1..Len(q) :
                /\ \E k \in 1..Len(triggers) : triggers[k] = q[i]
                /\ ~q[i].is_archived
                /\ q[i].trigger_score >= m
           /\ \A i, j \in 1..Len(q) : i < j => ~RanksBefore(q[j], q[i])
           /\ \A i, j \in 1..Len(q) : i # j => q[i].id # q[j].id
           /\ \A k \in 1..Len(triggers) :
                (/\ ~triggers[k].is_archived
                 /\ triggers[k].trigger_score >= m
                 /\ ~InResult(q, triggers[k]))
                => \A i \in 1..Len(q) : ~RanksBefore(triggers[k], q[i])

\* A query with threshold 7.0 and limit 2 has returned two events of equal
\* score in the order of their detection times, leaving out a third stored
\* event of lower score.
C8_Witness ==
    /\ IsScoreQuery(ret)
    /\ ret.arg.min_score = Some(70)
    /\ ret.arg.limit = 2
    /\ Len(ret.val) = 2
    /\ ret.val[1].trigger_score = ret.val[2].trigger_score
    /\ ret.val[1].detected_at[1] > ret.val[2].detected_at[1]
    /\ \E k \in 1..Len(triggers) : triggers[k].trigger_score < 70

IsDefaultQuery(c, ia) ==
    /\ c.op = "get_triggers"
    /\ c.arg = QueryArg(None, None, NoneT, DefaultLimit, ia)

\* Once archive_trigger(id) has been called on a stored id, the row is
\* archived, and no later call clears the flag.
ArchiveSticks ==
    /\ (ret'.op = "archive_trigger" /\ ret'.arg.id \in 1..Len(triggers))
         => triggers'[ret'.arg.id].is_archived
    /\ \A i \in 1..Len(triggers) :
         triggers[i].is_archived => (Len(triggers') >= i /\ triggers'[i].is_archived)

HiddenWhenArchived ==
    /\ IsDefaultQuery(ret, FALSE) => \A i \in 1..Len(ret.val) : ~ret.val[i].is_archived
    /\ ret.op = "get_trigger_stats" =>
         ret.val.total_triggers = NonArchivedCount(triggers)

\* C9 as stated: an archived event is never returned by the default
\* get_triggers call nor counted by get_trigger_stats, and
\* get_triggers(include_archived=True) returns it.
C9_ArchivedStillReturned ==
    /\ HiddenWhenArchived
    /\ IsDefaultQuery(ret, TRUE) =>
         \A k \in 1..Len(triggers) :
             triggers[k].is_archived => InResult(ret.val, triggers[k])

\* C9, amended: after archive_trigger(id) the event stays archived through
\* every later insert, mark_processed, archive and add_note; it is never
\* returned by the default get_triggers call nor counted by
\* get_trigger_stats; and get_triggers(include_archived=True) returns it
\* unless the call's limit is filled by events that do not rank after it.
C9_ArchivedWithinLimit ==
    /\ [][ArchiveSticks]_vars
    /\ [](HiddenWhenArchived)
    /\ [](IsDefaultQuery(ret, TRUE) =>
            \A k \in 1..Len(triggers) :
                triggers[k].is_archived =>
                    \/ InResult(ret.val, triggers[k])
                    \/ /\ Len(ret.val) = ret.arg.limit
                       /\ \A i \in 1..Len(ret.val) : ~RanksBefore(triggers[k], ret.val[i]))

\* The default call with include_archived=True has returned an archived
\* event that the default call leaves out, after a later insert.
C9_Witness ==
    /\ IsDefaultQuery(ret, TRUE)
    /\ Len(triggers) >= 2
    /\ triggers[1].is_archived
    /\ ~triggers[2].is_archived
    /\ InResult(ret.val, triggers[1])

IsUpdate(c) == c.op \in {"mark_processed", "archive_trigger", "add_note"}

UpdatedField(c) ==
    IF c.op = "mark_processed" THEN "is_processed"
    ELSE IF c.op = "archive_trigger" THEN "is_archived"
    ELSE "notes"

UpdatedValue(c) ==
    IF c.op = "add_note" THEN [text |-> c.arg.note] ELSE [flag |-> TRUE]

FieldAs(r, f) ==
    IF f = "notes" THEN [text |-> r.notes]
    ELSE IF f = "is_processed" THEN [flag |-> r.is_processed]
    ELSE [flag |-> r.is_archived]

Without(r, f) == [g \in (DOMAIN r) \ {f} |-> r[g]]

\* C10: mark_processed(id), archive_trigger(id) and add_note(id, note) set one
\* field (is_processed, is_archived, notes) of the event with that id and
\* leave every other field of it, and every other event, as they were; with
\* an id that is not stored they change nothing.
C10_UpdateFrame ==
    [][IsUpdate(ret') =>
         /\ Len(triggers') = Len(triggers)
         /\ \A i \in 1..Len(triggers) :
              IF i = ret'.arg.id
              THEN /\ Without(triggers'[i], UpdatedField(ret')) =
                        Without(triggers[i], UpdatedField(ret'))
                   /\ FieldAs(triggers'[i], UpdatedField(ret')) = UpdatedValue(ret')
              ELSE triggers'[i] = triggers[i]
         /\ ret'.arg.id \notin 1..Len(triggers) => triggers' = triggers]_vars

\* add_note has set the notes of the second of three stored events, the
\* other two keeping theirs.
C10_Witness ==
    /\ ret.op = "add_note"
    /\ ret.arg.id = 2
    /\ Len(triggers) = 3
    /\ triggers[2].notes = "x"
    /\ triggers[1].notes = ""
    /\ triggers[3].notes = ""

----------------------------------------------------------------------------
(* Claims about concurrent inserts *)

AllDone == \A w \in Workers : conn[w].pc = "done"

Colliding(w) == { v \in Workers : SameText(conn[v].ev, conn[w].ev) }

----------------------------------------------------------------------------
(* Claims about a monitor's run *)

Range(q) == {q[i] : i \in DOMAIN q}

\* The parsed items of the last run whose analysis does not raise
Analyzable == {i \in DOMAIN run.items : ~LoopBody[run.items[i], run.textblob].raises}

\* C4: when run() processes a batch of parsed items and analyzing one item
\* raises, that item alone is left out: run() returns the results of every
\* other item of the batch that analyzes successfully.
C4_PartialFailureTolerant ==
    RunsMade > 0 =>
        \A i \in Analyzable :
            Range(LoopBody[run.items[i], run.textblob].results) \subseteq Range(run.out)

\* C5: at the start of each run() the set of seen fingerprints is empty, so
\* the run parses every entry it fetched whose fingerprint was recorded in
\* an earlier run of the same instance.
C5_DedupSetResets ==
    (RunsMade > 0 /\ run.fault \in {"none", "analyze"}) =>
        /\ run.seen = {}
        /\ run.items = parse(run.raw_data, {}).items

----------------------------------------------------------------------------
(* Claims about the scores *)

IsScoreCall == scored.fn = "calculate_trigger_score"

\* Keyword count >= 0, sentiment in [-1, 1], age >= 0, reliability in [0, 1]
InScorerDomain(args) ==
    /\ args[1] >= 0
    /\ args[2] >= -1000 /\ args[2] <= 1000
    /\ args[3] >= 0
    /\ args[4] >= 0 /\ args[4] <= 1000

\* C6: calculate_trigger_score returns a value in [0, 10] for every keyword
\* count >= 0, sentiment in [-1, 1], age in days >= 0 and source
\* reliability in [0, 1].
C6_ScoreInRange ==
    (IsScoreCall /\ InScorerDomain(scored.args)) =>
        (scored.value[1] >= 0 /\ scored.value[1] <= 100)

\* The highest score: four or more keywords, sentiment 1, today,
\* reliability 1
C6_Witness ==
    /\ IsScoreCall
    /\ InScorerDomain(scored.args)
    /\ scored.args[1] > 4 /\ scored.args[2] = 1000 /\ scored.args[3] = 0
    /\ scored.args[4] = 1000
    /\ scored.value = Some(100)

IsAnalysis == scored.fn \in {"news", "regulatory", "tender", "financial"}

\* C7: every TriggerResult the analyze step of the news, regulatory, tender
\* and financial monitors emits has trigger_score in [0, 10] and
\* sentiment_score in [-1, 1].
C7_ResultsInRange ==
    IsAnalysis =>
        \A i \in DOMAIN scored.results :
            /\ scored.results[i].trigger_score >= 0
            /\ scored.results[i].trigger_score <= 100
            /\ scored.results[i].sentiment_score >= -1000
            /\ scored.results[i].sentiment_score <= 1000

\* A tender of the largest scale, whose quantity bonus takes the sentiment
\* argument to 1.5: its score is held at 10
C7_Witness ==
    /\ scored.fn = "tender"
    /\ scored.args[1].quantity_info.opportunity_score = 10
    /\ scored.results # <<>>
    /\ scored.results[1].trigger_score = 100
    /\ scored.results[1].sentiment_score = 500

----------------------------------------------------------------------------
(* Claims about the statistics *)

IsStats == ret.op = "get_trigger_stats"

\* The stored rows that are not archived, by position
ActiveIds == {i \in 1..Len(triggers) : ~triggers[i].is_archived}

ArchivedIds == {i \in 1..Len(triggers) : triggers[i].is_archived}

RECURSIVE SumOver(_, _)
\* The sum of f over the keys K
SumOver(f, K) ==
    IF K = {} THEN 0
    ELSE LET k == CHOOSE x \in K : TRUE IN f[k] + SumOver(f, K \ {k})

----------------------------------------------------------------------------
(* Claims about the text functions *)

IsCleanCall == scored.fn = "clean_text"

\* C12: clean_text is idempotent, clean_text(clean_text(t)) = clean_text(t)
\* for every text t, and empty or absent input gives the empty string.
C12_CleanTextIdempotent ==
    IsCleanCall =>
        /\ clean_text(scored.value[1]) = scored.value[1]
        /\ scored.args[1] \in {NoneT, Some("")} => scored.value[1] = ""

----------------------------------------------------------------------------
(* Claims about the scheduler *)

\* The executions in progress: of the periodic loops and of run_now
LoopRunning == {j \in Jobs : loops[j].pc = "executing"}

ManualRunning == {k \in 1..MaxRunNow : manual[k].run.pc = "executing"}

\* C13: no two runs that overlap in time use the same in-memory dedup set,
\* a run started by run_now while the periodic execution of the same job is
\* in progress included: each uses its own seen-fingerprint set.
C13_OwnDedupSet ==
    /\ \A j \in LoopRunning, k \in ManualRunning :
         loops[j].monitor # manual[k].run.monitor
    /\ \A j, i \in LoopRunning : j # i => loops[j].monitor # loops[i].monitor
    /\ \A k, i \in ManualRunning :
         k # i => manual[k].run.monitor # manual[i].run.monitor

----------------------------------------------------------------------------
(* Claims about the quantity analyzer *)

IsScale == scored.fn = "_get_scale"

\* low <= q < high, q a fraction
Within(q, low, high) == low * q.den <= q.num /\ q.num < high * q.den

\* C14: scale classification partitions the non-negative normalized
\* quantities into low-inclusive half-open bands.  Every q >= 0 gets exactly
\* one tier: small for 0 <= q < 10000, medium for 10000 <= q < 100000, large
\* for 100000 <= q < 1000000, enterprise for q >= 1000000; exactly 10000 is
\* medium and exactly 1000000 is enterprise.
C14_ScalePartition ==
    IsScale /\ scored.args[1].num >= 0 =>
        LET q    == scored.args[1]
            tier == scored.value[1]
        IN  /\ tier \in {"small", "medium", "large", "enterprise"}
            /\ tier = "small" <=> Within(q, 0, 10000)
            /\ tier = "medium" <=> Within(q, 10000, 100000)
            /\ tier = "large" <=> Within(q, 100000, 1000000)
            /\ tier = "enterprise" <=> 1000000 * q.den <= q.num
            /\ q = Whole(10000) => tier = "medium"
            /\ q = Whole(1000000) => tier = "enterprise"

\* _get_scale(10000) returned medium
C14_Witness ==
    IsScale /\ scored.args[1] = Whole(10000) /\ scored.value = Some("medium")

IsExtract == scored.fn = "extract_quantities"

\* The one estimate the claims expect of number, magnitude word and unit:
\* the number times the word's multiplier, the unit word as label, that
\* quantity times the unit's base multiplier
AsWritten(estimates, number, magnitude, unit) ==
    /\ Len(estimates) = 1
    /\ estimates[1].quantity = Product(number.value, Whole(_get_multiplier(magnitude)))
    /\ estimates[1].unit = unit
    /\ estimates[1].normalized_quantity = Product(estimates[1].quantity, Conversion(unit))

\* C15: a number followed by a magnitude word (lakh, lac, lakhs, lacs, crore,
\* crores, cr, million, mil, k, thousand) and then a unit word yields
\* quantity = number x the word's table multiplier, unit label = the unit
\* word, normalized_quantity = quantity x the unit's base multiplier
\* ('5 lakh tablets': quantity 500000, normalized 500000, scale large).
C15_MagnitudeThenUnit ==
    IsExtract /\ scored.args[2] # "" =>
        /\ AsWritten(scored.results, scored.args[1], scored.args[2], scored.args[3])
        /\ scored.value = Some("5 lakh tablets") =>
             /\ scored.results[1].quantity = Whole(500000)
             /\ scored.results[1].normalized_quantity = Whole(500000)
             /\ scored.results[1].scale = "large"

\* C16: a number followed directly by a recognized unit word, no magnitude
\* word between ('5 kg', '5 kilograms', '5 liters', '5 mg'), gets multiplier
\* 1: quantity = the number, unit label = the whole unit word,
\* normalized_quantity = number x the unit's base multiplier, and the value
\* is priced in the unit's price class.
C16_UnitWithoutMagnitude ==
    IsExtract /\ scored.args[2] = "" =>
        /\ AsWritten(scored.results, scored.args[1], "", scored.args[3])
        /\ scored.results[1].quantity = scored.args[1].value
        /\ scored.results[1].estimated_value_inr
             = Product(scored.args[1].value, AVG_PRICES[_get_unit_type(scored.args[3])])

IsTender == scored.fn = "analyze_tender"

\* The text has no digit, or is None
NoNumber(text) == text = NoneT \/ \A i \in 1..Len(text[1]) : Char(text[1], i) \notin Digits

\* C17: analyze_tender on text from which no quantity is extracted (no
\* numeric token, or empty text) returns an empty quantity list, max_scale
\* 'unknown', opportunity_score 0 and total_estimated_value 0, and does not
\* raise.
C17_NothingFound ==
    IsTender /\ NoNumber(scored.args[1]) =>
        /\ ~scored.raised
        /\ scored.value[1].quantities = <<>>
        /\ scored.value[1].max_scale = "unknown"
        /\ scored.value[1].opportunity_score = 0
        /\ scored.value[1].total_estimated_value = Whole(0)

\* analyze_tender returned for a text of words, a magnitude word among them
C17_Witness ==
    /\ IsTender
    /\ scored.args = <<Some("supply of tablets, lakh strips")>>
    /\ scored.value[1].max_scale = "unknown"

\* small < medium < large < enterprise
TierRank == [small |-> 1, medium |-> 2, large |-> 3, enterprise |-> 4]

RECURSIVE ValueSum(_, _)
\* The estimated values of the first n quantities, added up
ValueSum(quantities, n) ==
    IF n = 0 THEN Whole(0)
    ELSE Sum(ValueSum(quantities, n - 1), quantities[n].estimated_value_inr)

\* C18: when at least one quantity is extracted, max_scale is the tier of the
\* quantity with the largest normalized_quantity, hence the highest tier
\* among the extracted quantities; opportunity_score is 2, 5, 8 or 10 for
\* small, medium, large, enterprise; total_estimated_value is the sum of the
\* estimated values of all extracted quantities.
C18_LargestDecides ==
    IsTender /\ scored.value[1].quantities # <<>> =>
        LET a  == scored.value[1]
            qs == a.quantities
        IN  /\ qs = extract_quantities(scored.args[1])
            /\ \E i \in DOMAIN qs :
                 /\ \A j \in DOMAIN qs :
                      ~LessThan(qs[i].normalized_quantity, qs[j].normalized_quantity)
                 /\ a.max_scale = qs[i].scale
            /\ \A j \in DOMAIN qs : TierRank[qs[j].scale] <= TierRank[a.max_scale]
            /\ a.opportunity_score
                 = CASE a.max_scale = "small" -> 2 [] a.max_scale = "medium" -> 5
                     [] a.max_scale = "large" -> 8 [] a.max_scale = "enterprise" -> 10
            /\ a.total_estimated_value = ValueSum(qs, Len(qs))

\* Two quantities, the smaller count in the larger packaging: 100 boxes are
\* 10000 units (medium), 1000 tablets are small
C18_Witness ==
    /\ IsTender
    /\ scored.args = <<Some("1000 tablets and 100 boxes")>>
    /\ Len(scored.value[1].quantities) = 2
    /\ scored.value[1].max_scale = "medium"
    /\ scored.value[1].opportunity_score = 5
    /\ scored.value[1].total_estimated_value = Whole(2200)

----------------------------------------------------------------------------
(* Claims about keyword detection and the fallback sentiment *)

IsDetect == scored.fn = "detect"

\* The character of s at position i is a word character (none outside s)
WordAt(s, i) == i >= 1 /\ i <= Len(s) /\ IsWordChar(Char(s, i))

\* The stretch of s from i to j is whole: no word runs across either end
WholeAt(s, i, j) ==
    /\ ~(WordAt(s, i - 1) /\ WordAt(s, i))
    /\ ~(WordAt(s, j) /\ WordAt(s, j + 1))

\* C19: for every text and every detector configuration, each KeywordMatch
\* that detect returns names a keyword the detector holds under the reported
\* category, and that keyword stands in the text, compared without regard to
\* case, at the reported position as a whole word or phrase: the occurrence
\* is not part of a larger word on either side.
C19_MatchesAreWhole ==
    IsDetect =>
        \A n \in DOMAIN scored.results :
            LET match    == scored.results[n]
                table    == Keywords(scored.args[1])
                text     == scored.args[2][1]
                from     == match.position + 1
                to       == match.position + Len(match.keyword)
            IN  /\ \E c \in DOMAIN table :
                     /\ table[c].category = match.category
                     /\ \E k \in DOMAIN table[c].keywords :
                          table[c].keywords[k] = match.keyword
                /\ match.position >= 0 /\ to <= Len(text)
                /\ Lower(SubSeq(text, from, to)) = Lower(match.keyword)
                /\ WholeAt(text, from, to)

\* detect of the default table found 'recall' and 'FDA warning letter' in a
\* text that writes them in other case
C19_Witness ==
    /\ IsDetect
    /\ scored.args = <<NoneT, Some("Product recall: FDA Warning Letter")>>
    /\ Len(scored.results) = 2
    /\ scored.results[1].keyword = "FDA warning letter" /\ scored.results[1].position = 16
    /\ scored.results[2].keyword = "recall" /\ scored.results[2].position = 8

IsFallback == scored.fn = "_analyze_with_keywords"

\* How many of the words are on the list
OnList(words, list) == Cardinality({n \in DOMAIN words : words[n].list = list})

\* C20: the fallback sentiment path computes, from the counts pos and neg of
\* positive-list and negative-list word occurrences, polarity =
\* (pos - neg) / (pos + neg) when pos + neg > 0 and 0 otherwise, always
\* within [-1, 1], and labels the text positive if the polarity is above 0.1,
\* negative if it is below -0.1, else neutral; two positive words and one
\* negative word give polarity 0.333 and label positive.  The polarity is
\* returned to three decimal places, in thousandths here.
C20_FallbackPolarity ==
    IsFallback =>
        LET pos    == OnList(scored.args[1], "positive")
            neg    == OnList(scored.args[1], "negative")
            result == scored.value[1]
            error  == 1000 * (pos - neg) - result.polarity * (pos + neg)
        IN  /\ pos + neg = 0 => result.polarity = 0
            /\ 2 * error <= pos + neg /\ -2 * error <= pos + neg
            /\ result.polarity >= -1000 /\ result.polarity <= 1000
            /\ result.label = "positive" <=> 10 * (pos - neg) > pos + neg
            /\ result.label = "negative" <=> 10 * (pos - neg) < -(pos + neg)
            /\ result.label \in {"positive", "negative", "neutral"}
            /\ pos = 2 /\ neg = 1 => result.polarity = 333 /\ result.label = "positive"

\* The fallback analysis of a text of two positive words and a negative one
C20_Witness ==
    /\ IsFallback
    /\ OnList(scored.args[1], "positive") = 2 /\ OnList(scored.args[1], "negative") = 1
    /\ scored.value = Some([polarity |-> 333, label |-> "positive"])

----------------------------------------------------------------------------
(* Claims about the scorer's formula and the monitors' use of it *)

\* C21: calculate_trigger_score is min(round(min(keywordCount, 4) +
\* (1 + sentiment) + recency + 2 * reliability, 1), 10), recency being 2.0
\* for an age of at most 1 day, 1.5 for at most 7 days, 1.0 for at most 30
\* days and 0.5 beyond; so the score never increases as the age grows, and
\* keyword counts of 4 or more all contribute the same 4 points.
C21_ScoreFormula ==
    IsScoreCall =>
        LET k       == scored.args[1]
            s       == scored.args[2]
            d       == scored.args[3]
            r       == scored.args[4]
            recency == CASE d <= 1 -> 2000 [] d > 1 /\ d <= 7 -> 1500
                         [] d > 7 /\ d <= 30 -> 1000 [] d > 30 -> 500
            total   == (IF k < 4 THEN k ELSE 4) * 1000 + (1000 + s) + recency + 2 * r
            score   == scored.value[1]
        IN  /\ \E tenths \in (total \div 100)..(total \div 100 + 1) :
                 /\ 100 * tenths - total \in -50..50
                 /\ score = IF tenths < 100 THEN tenths ELSE 100
            /\ \A older \in Ages :
                 older >= d => calculate_trigger_score(k, s, older, r) <= score
            /\ k >= 4 => score = calculate_trigger_score(4, s, d, r)

\* Five keywords, neutral sentiment, 31 days old, reliability 0.6: 6.7, what
\* four keywords give
C21_Witness ==
    /\ IsScoreCall
    /\ scored.args = <<5, 0, 31, 600>>
    /\ scored.value = Some(67)

IsBatch == scored.fn = "analyze"

\* C22: the list the analyze step of every monitor (news, regulatory,
\* tender, financial) returns is sorted by trigger_score in non-increasing
\* order, for every input batch.
C22_SortedByScore ==
    IsBatch /\ ~scored.raised =>
        \A i, j \in DOMAIN scored.results :
            i < j => scored.results[i].trigger_score >= scored.results[j].trigger_score

\* A tender batch whose second item scores higher than its first came back
\* with the second item first
C22_Witness ==
    /\ IsBatch /\ ~scored.raised
    /\ scored.args[1] = "tender"
    /\ Len(scored.args[2]) = 2 /\ Len(scored.results) = 2
    /\ TenderResults(scored.args[2][1])[1].trigger_score
         < TenderResults(scored.args[2][2])[1].trigger_score
    /\ scored.results[1] = TenderResults(scored.args[2][2])[1]
    /\ scored.results[1].trigger_score > scored.results[2].trigger_score

----------------------------------------------------------------------------
(* Claims about the export *)

\* C23: export_to_csv called without filters writes exactly one data row for
\* every stored event that is not archived, whatever the number of stored
\* events, and returns that number of rows.
C23_ExportsEveryEvent ==
    (ret.op = "export_to_csv" /\ ret.arg.filters = NoneT) =>
        /\ {ret.val.rows[i].id : i \in DOMAIN ret.val.rows} = {r.id : r \in Active(triggers)}
        /\ Len(ret.val.rows) = Cardinality(Active(triggers))
        /\ ret.val.count = Cardinality(Active(triggers))

----------------------------------------------------------------------------
(* Claims about the parse step *)

IsParse == scored.fn = "parse"

\* The fetched entries that have a title and a summary or snippet
Titled(raws) == SelectSeq(raws, LAMBDA raw : "title" \in DOMAIN raw)

EntryText(raw) == <<raw.title, IF "summary" \in DOMAIN raw THEN raw.summary ELSE raw.snippet>>

EntryUrl(raw) == IF "link" \in DOMAIN raw THEN raw.link ELSE raw.url

RECURSIVE FirstUrls(_, _)
\* The urls of the entries whose text no earlier entry has, in order
FirstUrls(raws, texts) ==
    IF raws = <<>> THEN <<>>
    ELSE IF EntryText(raws[1]) \in texts THEN FirstUrls(Tail(raws), texts)
    ELSE <<EntryUrl(raws[1])>> \o FirstUrls(Tail(raws), texts \cup {EntryText(raws[1])})

\* The urls of the parsed items made of titled entries, in order
ParsedUrls(items) ==
    LET titled == SelectSeq(items, LAMBDA item :
                      "data_type" \in DOMAIN item => item.data_type \in {"stock_filing", "social_media"})
    IN  [n \in DOMAIN titled |-> titled[n].url]

\* C24: within one parse pass of a monitor, of fetched entries (of
\* overlapping sources or of one) that have the same title and summary or
\* snippet text at most one is parsed, the first in processing order, and
\* entries of distinct text never suppress one another: the parsed items are
\* those of the first entry of each text.
C24_FirstOfEachText ==
    IsParse => ParsedUrls(scored.results) = FirstUrls(Titled(scored.args[2]), {})

\* The same for the news monitor alone
NewsFirstOfEachText == (IsParse /\ scored.args[1] = "news") => C24_FirstOfEachText


\* The call of calculate_trigger_score that one pass of an analyze loop makes
CallOf ==
    LET item == scored.args[1]
        textblob == scored.args[2]
    IN  CASE scored.fn = "news" -> NewsCall(item, textblob)
          [] scored.fn = "regulatory" -> RegulatoryCall(item, textblob)
          [] scored.fn = "tender" -> TenderCall(item)
          [] OTHER -> FinancialCall(item, textblob)

\* A pass that called the scorer and emitted a TriggerResult with its score:
\* every emitted result but that of a job signal, whose score is given
ScoredByCall ==
    /\ IsAnalysis
    /\ scored.results # <<>>
    /\ ~(scored.fn = "financial" /\ scored.args[1].data_type = "job_signal")

\* C25: at every call of calculate_trigger_score that a monitor makes the
\* sentiment argument is in [-1, 1] and the reliability argument in [0, 1],
\* the sentiment term 1.0 + sentiment is between 0 and 2 points, and the
\* sentiment scored is the sentiment_score of the emitted TriggerResult
C25_SentimentScoredIsRecorded ==
    ScoredByCall =>
        /\ CallOf.sentiment_score \in -1000..1000
        /\ CallOf.source_reliability \in 0..1000
        /\ SentimentContribution(CallOf.sentiment_score) \in 0..2000
        /\ scored.results[1].sentiment_score = CallOf.sentiment_score

\* The same of the news, regulatory and financial monitors alone
TextMonitorsScoreRecorded == (ScoredByCall /\ scored.fn # "tender") => C25_SentimentScoredIsRecorded

----------------------------------------------------------------------------
(* Claims about the quick-access sentiment queries *)

IsQuick == scored.fn = "quick_access"

\* C26: the quick-access queries agree for every text: is_positive is true
\* exactly when get_label is 'positive', is_negative exactly when get_label
\* is 'negative', and the two are never both true
C26_QueriesAgree ==
    IsQuick =>
        /\ scored.value[1].is_positive <=> (scored.value[1].label = "positive")
        /\ scored.value[1].is_negative <=> (scored.value[1].label = "negative")
        /\ ~(scored.value[1].is_positive /\ scored.value[1].is_negative)

\* The queries never both hold, whatever the label
NeverBothSigns == IsQuick => ~(scored.value[1].is_positive /\ scored.value[1].is_negative)

\* The same of the texts of up to MaxWords words
ShortTextsAgree == (IsQuick /\ Len(scored.args[1]) < 50) => C26_QueriesAgree

----------------------------------------------------------------------------
(* Claims about the regulatory monitor's sign flip *)

\* A regulatory item analysed to its TriggerResult
IsRegulatory == scored.fn = "regulatory" /\ scored.results # <<>>

\* The polarity the sentiment analyzer estimates for the item's text
Estimated == analyze_sentiment(FullText(scored.args[1]), scored.args[2]).polarity

FromFda == Contains("fda", Lower(scored.args[1].source))

HighSeverity == scored.args[1].severity = "high"

\* C27: the regulatory monitor flips the sign of the sentiment exactly for
\* items of a source named 'fda' and of severity 'high': for those the
\* recorded and the scored sentiment are the negated estimate of the polarity
\* and the tag 'competitor_issue' is added; for every other item both are
\* the estimate unchanged and the tag is not added
C27_FlipForFdaHigh ==
    IsRegulatory =>
        LET sentiment_score == IF FromFda /\ HighSeverity THEN -Estimated ELSE Estimated
        IN  /\ scored.results[1].sentiment_score = sentiment_score
            /\ CallOf.sentiment_score = sentiment_score
            /\ scored.results[1].trigger_score =
                   calculate_trigger_score(CallOf.keyword_matches, sentiment_score,
                                           CallOf.recency_days, CallOf.source_reliability)
            /\ ("competitor_issue" \in scored.results[1].trigger_keywords)
                   <=> (FromFda /\ HighSeverity)

\* A high-severity FDA item of negative polarity recorded as positive and tagged
C27_Witness ==
    /\ IsRegulatory
    /\ FromFda /\ HighSeverity
    /\ Estimated = -1000
    /\ scored.results[1].sentiment_score = 1000
    /\ "competitor_issue" \in scored.results[1].trigger_keywords

----------------------------------------------------------------------------
(* Claims about run_all_monitors *)

IsRunAll == ret.op = "run_all_monitors"

\* Is there a row of the event's fingerprint?
InStore(e) == \E r \in Rows(triggers) : r.content_hash = Fingerprint(e)

\* The results of the i-th monitor that its loop reached: those before the
\* first whose insert raised
Reached(i) ==
    LET rs == ret.arg[i].results
    IN  {k \in DOMAIN rs : \A j \in 1..k : rs[j].title # None}

\* Did the i-th monitor fail, in its run or while its results were stored?
Failed(i) == ret.arg[i].raises \/ \E k \in DOMAIN ret.arg[i].results : ret.arg[i].results[k].title = None

\* C28: a failure while one monitor is run or its results are stored keeps no
\* later monitor from being run and its results from being stored, and what
\* was stored for earlier monitors remains stored
C28_BatchesIndependent ==
    IsRunAll =>
        /\ \A i \in DOMAIN ret.arg : \A k \in Reached(i) : InStore(ret.arg[i].results[k])
        /\ ret.val = Concat([i \in DOMAIN ret.arg |-> ret.arg[i].results])

\* The first monitor fails while its results are stored, the second in its
\* run, and the results of the first and of the third are in the store
C28_Witness ==
    /\ IsRunAll
    /\ ret.arg[1].results = <<StorableB, Unstorable>>
    /\ ret.arg[2].raises
    /\ ret.arg[3].results = <<StorableA>>
    /\ Failed(1) /\ Failed(2) /\ ~Failed(3)
    /\ InStore(StorableA) /\ InStore(StorableB)
    /\ Len(triggers) = 2

----------------------------------------------------------------------------
(* Claims about BaseMonitor.run's outcome *)

\* get_results()
get_results == results

\* get_stats()['results_count']
results_count == Len(results)

\* C29: run() propagates no exception of fetch, parse or analyze and then
\* returns an empty list; it sets last_run on exit; and after it has
\* returned, get_results() and get_stats()['results_count'] describe the
\* list it returned, never the results of an earlier run
C29_RunReportsItsOwnResults ==
    [][/\ last_run' # NoneT /\ last_run' # last_run
       /\ run'.raised => run'.out = <<>>
       /\ get_results' = run'.out
       /\ results_count' = Len(run'.out)]_vars

\* A run that returned results followed by one that parse ended: nothing of
\* the first is reported after the second
C29_Witness == run.fault = "parse" /\ RunsMade = 2 /\ run.seen # {} /\ results = <<>>

\* A run that returned results followed by one whose analyze raised
C29_AfterAnalyzeRaised ==
    /\ run.fault = "analyze" /\ RunsMade = 2 /\ run.seen # {} /\ run.items # <<>>
    /\ results = <<>>

----------------------------------------------------------------------------
(* Claims about enabled and disabled jobs *)

\* The periodic loop of job j starts an execution in this step
PeriodicStarts(j) == loops[j].pc = "calling" /\ loops'[j].pc = "executing"

\* start() gives job j its thread in this step
ThreadStarts(j) == loops[j].pc = "none" /\ loops'[j].pc = "loop"

\* C30: a job is executed periodically only while it is enabled: a job
\* added with enabled=False is not executed by the periodic loop after
\* start(), after disable_job(id) has returned the scheduler starts no
\* periodic execution of that job, and after stop() has returned it starts
\* no periodic execution of any job
C30_PeriodicOnlyWhileEnabled ==
    [][\A j \in Jobs :
         PeriodicStarts(j) => (scheduler.jobs[j].enabled /\ scheduler.is_running)]_vars

\* start() gives a thread to the jobs that are enabled and to no other
ThreadsForEnabledJobs == [][\A j \in Jobs : ThreadStarts(j) => scheduler.jobs[j].enabled]_vars

\* The loop goes round again only while the scheduler is running
NoRoundAfterStop ==
    [][\A j \in Jobs : (loops[j].pc = "loop" /\ loops'[j].pc = "calling") => scheduler.is_running]_vars
=============================================================================
